---- MODULE Spec2Model ----
(***************************************************************************)
(* A model of google/licenseclassifier.                                    *)
(*                                                                         *)
(*  MatchSpec : Corpus.Match (src/v2/classifier.go), from the scored       *)
(*              candidates to the returned list: the sort and the overlap  *)
(*              resolution.                                                *)
(*  BatchSpec : ClassifierBackend.ClassifyLicensesWithContext and          *)
(*              ClassifyLicenses (src/v2/assets/embed.go), the goroutines  *)
(*              they start, the channels, the wait group and the mutex.    *)
(*                                                                         *)
(* Go slices are 0-based; TLA+ sequences are 1-based.  An index k of the   *)
(* source is position k+1 of the sequence that models the slice.           *)
(* Confidence is a float64 in [0,1] in the source; here it is an integer   *)
(* number of tenths, so that products of token counts and confidences are  *)
(* compared exactly.                                                       *)
(***************************************************************************)
EXTENDS Integers, Sequences, FiniteSets, TLC

(***************************************************************************)
(* Bounds                                                                  *)
(***************************************************************************)
\* number of tokens of the target document
NumTok == 4
\* largest number of scored candidates of one query
MaxCands == 3

\* number of files of a batch
NumFiles == 2
\* largest task limit (numTasks) of a batch
MaxTasks == 2

\* number of concurrent calls of MultipleMatch
NumCallers == 2
\* number of known values of the string classifier
NumValues == 2

\* corpus keys of the documents that passed the first pass
Keys == {"A.txt", "B.header"}
\* confidences (tenths) at or above the threshold
ConfLevels == {9, 10}

VARIABLES
    \* ---- Corpus.Match
    Tokens,      \* id.Tokens of the target document: records [Line, Index]
    hits,        \* the scored spans that pass the test of line 79
    candidates,  \* the slice `candidates`
    retain,      \* the slice `retain`
    i,           \* index of the outer loop of line 95
    out,         \* the returned Matches
    mpc,         \* position in Match
    again,       \* Match has been run on this corpus and query before
    prevOut      \* what the previous run returned (when again)

matchVars == <<Tokens, hits, candidates, retain, i, out, mpc, again, prevOut>>

VARIABLES
    \* ---- the inputs of a batch
    numTasks,    \* the argument numTasks
    headers,     \* the argument headers
    content,     \* per file: is it readable, and the types of the matches
                 \* b.classifier.Match finds in it
    \* ---- ClassifierBackend
    results,     \* b.results
    mu,          \* b.mu: 0 when free, else the worker that holds it
    \* ---- ClassifyLicenses
    task,        \* number of tokens in the channel `task`
    taskClosed,  \* the channel `task` is closed
    errs,        \* the buffer of the channel `errs`
    errsClosed,  \* the channel `errs` is closed
    wg,          \* the counter of the WaitGroup
    next,        \* the file the loop of line 146 is at (1-based)
    lerrors,     \* the named result `errors` of ClassifyLicenses
    lpc,         \* position of the goroutine that runs ClassifyLicenses
    kpc,         \* position of the goroutine of lines 151-155
    wpc,         \* per file: position of its analyze goroutine
    widx,        \* per file: the match its matchLoop is at (1-based)
    \* ---- ClassifyLicensesWithContext and its caller
    ctxDone,     \* ctx.Done() is closed: the deadline has expired
    errors,      \* the named result `errors` of ClassifyLicensesWithContext
    cpc,         \* position of the caller
    returned,    \* the error list the caller received
    got,         \* what GetResults returned to the caller
    crashed      \* a goroutine panicked: the process is gone

batchVars == <<numTasks, headers, content, results, mu, task, taskClosed, errs,
               errsClosed, wg, next, lerrors, lpc, kpc, wpc, widx, ctxDone,
               errors, cpc, returned, got, crashed>>

VARIABLES
    \* ---- one function of the library, called by itself
    args,        \* the arguments the function is called with
    calls        \* the calls that have returned: arguments and result

callVars == <<args, calls>>

VARIABLES
    \* ---- Corpus
    dict,        \* c.dict: the maps words and indices
    docs,        \* c.docs: per key, the Tokens of the indexedDocument
    threshold    \* c.threshold, in tenths

corpusVars == <<dict, docs, threshold>>

VARIABLES
    \* ---- stringclassifier.Classifier and the calls of MultipleMatch
    values,      \* c.values: per known value, its set field ("nil" or "built")
    muValues,    \* c.muValues: the holders of the read lock and of the write lock
    qpc,         \* per call of multipleMatch, where it is
    kvals,       \* per call, the known values it has not started a goroutine for
    known,       \* per goroutine, the set it was started with
    gpc          \* per goroutine classifyString, where it is

classifierVars == <<values, muValues, qpc, kvals, known, gpc>>

VARIABLES
    \* ---- commentparser: Comments.ChunkIterator and the loop that reads it
    comments,    \* c: the comments, in the order of the file
    index,       \* index, counted from 0
    prevChunk,   \* prevChunk: the comment last looked at
    chunk,       \* chunk: the comments gathered for the next send
    chClosed,    \* whether ch is closed
    ppc,         \* where the goroutine of ChunkIterator is
    rpc,         \* where the loop `for ch := range ...` is
    received     \* the chunks the loop has received

chunkVars == <<comments, index, prevChunk, chunk, chClosed, ppc, rpc, received>>

\* the variables of the library functions
libVars == <<callVars, corpusVars, classifierVars, chunkVars>>

vars == <<matchVars, batchVars, libVars>>

\* no library function is being called on its own
\* no corpus has been made
CorpusIdle ==
    /\ dict = [words |-> <<>>, indices |-> <<>>]
    /\ docs = <<>>
    /\ threshold = 0

\* the calls of MultipleMatch and the known values of the classifier
Callers == 1..NumCallers
Values == 1..NumValues

\* no call of MultipleMatch is made
ClassifierIdle ==
    /\ values = [v \in Values |-> "nil"]
    /\ muValues = [readers |-> {}, writer |-> <<>>]
    /\ qpc = [c \in Callers |-> "none"]
    /\ kvals = [c \in Callers |-> {}]
    /\ known = [c \in Callers |-> [v \in Values |-> "nil"]]
    /\ gpc = [c \in Callers |-> [v \in Values |-> "none"]]

\* no comments are iterated
ChunkIdle ==
    /\ comments = <<>>
    /\ index = 0
    /\ prevChunk = <<>>
    /\ chunk = <<>>
    /\ chClosed = FALSE
    /\ ppc = "none"
    /\ rpc = "none"
    /\ received = <<>>

LibIdle ==
    /\ args = <<>>
    /\ calls = {}
    /\ CorpusIdle
    /\ ClassifierIdle
    /\ ChunkIdle

(***************************************************************************)
(* Corpus.Match: helpers                                                   *)
(***************************************************************************)
\* licName: the key up to its first ".txt" and then up to its first ".header"
licName(l) ==
    CASE l = "A.txt" -> "A"
      [] l = "B.header" -> "B"
      [] OTHER -> l

\* the Match literal of lines 80-88; s = startIndex+startOffset and
\* e = endIndex-endOffset-1 are indices into id.Tokens
NewMatch(toks, l, conf, s, e) ==
    [ Name            |-> licName(l),
      MatchType       |-> "Text",
      Confidence      |-> conf,
      StartLine       |-> toks[s + 1].Line,
      EndLine         |-> toks[e + 1].Line,
      StartTokenIndex |-> toks[s + 1].Index,
      EndTokenIndex   |-> toks[e + 1].Index ]

\* Less with the last tie-break reversed
LessShorterFirst(di, dj) ==
    IF di.Confidence # dj.Confidence
    THEN di.Confidence > dj.Confidence
    ELSE IF di.StartTokenIndex # dj.StartTokenIndex
         THEN di.StartTokenIndex < dj.StartTokenIndex
         ELSE di.EndTokenIndex < dj.EndTokenIndex

\* Matches.Less
Less(di, dj) ==
    IF di.Confidence # dj.Confidence
    THEN di.Confidence > dj.Confidence
    ELSE IF di.StartTokenIndex # dj.StartTokenIndex
         THEN di.StartTokenIndex < dj.StartTokenIndex
         ELSE di.EndTokenIndex > dj.EndTokenIndex

\* contains, as written in the source
contains(a, b) ==
    a.StartLine <= b.StartLine /\ a.EndLine >= b.StartLine

\* between with the two ends left out
betweenExclusive(a, b, c) == b < a /\ a < c

between(a, b, c) == b <= a /\ a <= c

overlaps(a, b) ==
    \/ between(a.StartLine, b.StartLine, b.EndLine)
    \/ between(a.EndLine, b.StartLine, b.EndLine)

\* ctoks*c.Confidence and otoks*o.Confidence of lines 122-124
TokScore(m) == (m.EndTokenIndex - m.StartTokenIndex) * m.Confidence

\* the arrangements sort.Sort may leave: every permutation of the slice that
\* is ordered by Less (the sort is not stable)
IsSorted(s) ==
    \A a, b \in 1..Len(s) : a < b => ~Less(s[b], s[a])

Orderings(S) ==
    { f \in [1..Cardinality(S) -> S] : \A a, b \in 1..Cardinality(S) : a # b => f[a] # f[b] }

\* the outcome of one pass of the inner loop of lines 108-133 for candidate
\* number k (1-based): `keep` and the keys of `proposals`
Proposals(cs, rt, k) ==
    { j \in 1..(k - 1) :
        /\ contains(cs[k], cs[j]) /\ rt[j]
        /\ TokScore(cs[k]) > TokScore(cs[j]) }

\* Keep with the comparison of line 124 made >=
KeepOnTie(cs, rt, k) ==
    \A j \in 1..(k - 1) :
        IF contains(cs[k], cs[j]) /\ rt[j]
        THEN TokScore(cs[k]) >= TokScore(cs[j])
        ELSE ~(overlaps(cs[k], cs[j]) /\ rt[j])

Keep(cs, rt, k) ==
    \A j \in 1..(k - 1) :
        IF contains(cs[k], cs[j]) /\ rt[j]
        THEN TokScore(cs[k]) > TokScore(cs[j])
        ELSE ~(overlaps(cs[k], cs[j]) /\ rt[j])

\* Retained without the loop of lines 136-138
RetainedNoProposals(cs, rt, k) ==
    IF Keep(cs, rt, k)
    THEN [ j \in 1..Len(cs) |-> IF j = k THEN TRUE ELSE rt[j] ]
    ELSE rt

\* lines 134-139
Retained(cs, rt, k) ==
    IF Keep(cs, rt, k)
    THEN [ j \in 1..Len(cs) |->
             IF j = k THEN TRUE
             ELSE IF j \in Proposals(cs, rt, k) THEN FALSE
             ELSE rt[j] ]
    ELSE rt

RECURSIVE Select(_, _)
\* lines 142-148
Select(cs, rt) ==
    IF cs = <<>> THEN <<>>
    ELSE LET n == Len(cs)
             front == Select(SubSeq(cs, 1, n - 1), SubSeq(rt, 1, n - 1))
         IN IF rt[n] THEN Append(front, cs[n]) ELSE front

(***************************************************************************)
(* Corpus.Match: the state machine                                         *)
(***************************************************************************)
\* the token/line layouts of the target (indexedToken, src/v2/document.go):
\* token k has index k, the first token
\* is on line 1 and every token is on the line of its predecessor or the next
RECURSIVE LineOf(_, _)
LineOf(steps, k) == IF k = 1 THEN 1 ELSE LineOf(steps, k - 1) + steps[k - 1]

Layouts ==
    { [ k \in 1..NumTok |-> [Line |-> LineOf(steps, k), Index |-> k - 1] ] :
        steps \in [1..(NumTok - 1) -> {0, 1}] }

\* a scored span: corpus key, confidence, first and last token of the span
Hits ==
    { h \in [l : Keys, conf : ConfLevels, s : 0..(NumTok - 1), e : 0..(NumTok - 1)] :
        h.s <= h.e }

RECURSIVE SubsetsUpTo(_, _)
\* the subsets of S of at most n elements
SubsetsUpTo(S, n) ==
    IF n = 0 THEN {{}}
    ELSE LET smaller == SubsetsUpTo(S, n - 1)
         IN smaller \cup { T \cup {x} : T \in smaller, x \in S }

MatchInit ==
    /\ numTasks = 1
    /\ headers = FALSE
    /\ content = [f \in 1..NumFiles |-> [readable |-> TRUE, matches |-> <<>>]]
    /\ results = <<>> /\ mu = 0 /\ task = 0 /\ taskClosed = FALSE
    /\ errs = <<>> /\ errsClosed = FALSE /\ wg = 0 /\ next = 1
    /\ lerrors = <<>> /\ lpc = "none" /\ kpc = "none"
    /\ wpc = [f \in 1..NumFiles |-> "none"]
    /\ widx = [f \in 1..NumFiles |-> 1]
    /\ ctxDone = FALSE /\ errors = <<>> /\ cpc = "call"
    /\ returned = <<>> /\ got = <<>> /\ crashed = FALSE
    /\ Tokens \in Layouts
    /\ hits \in SubsetsUpTo(Hits, MaxCands)
    /\ candidates = <<>>
    /\ retain = <<>>
    /\ i = 0
    /\ out = <<>>
    /\ mpc = "collect"
    /\ again = FALSE
    /\ prevOut = <<>>
    /\ LibIdle

\* lines 72-94: the candidates are appended in the order the map firstPass is
\* ranged over, sorted, and retain is allocated
CollectAndSort ==
    /\ mpc = "collect"
    /\ \E f \in Orderings({ NewMatch(Tokens, h.l, h.conf, h.s, h.e) : h \in hits }) :
          /\ IsSorted(f)
          /\ candidates' = f
          /\ retain' = [ j \in 1..Len(f) |-> FALSE ]
    /\ i' = 0
    /\ mpc' = "resolve"
    /\ UNCHANGED <<Tokens, hits, out, again, prevOut, batchVars, libVars>>

\* one iteration of the loop of lines 95-140
ResolveStep ==
    /\ mpc = "resolve"
    /\ i < Len(candidates)
    /\ retain' = Retained(candidates, retain, i + 1)
    /\ i' = i + 1
    /\ UNCHANGED <<Tokens, hits, candidates, out, mpc, again, prevOut, batchVars, libVars>>

\* lines 142-148
ReturnMatches ==
    /\ mpc = "resolve"
    /\ i = Len(candidates)
    /\ out' = Select(candidates, retain)
    /\ mpc' = "done"
    /\ UNCHANGED <<Tokens, hits, candidates, retain, i, again, prevOut, batchVars, libVars>>

\* Match is called again with the same corpus and the same query
MatchAgain ==
    /\ mpc = "done"
    /\ again' = TRUE
    /\ prevOut' = out
    /\ candidates' = <<>>
    /\ retain' = <<>>
    /\ i' = 0
    /\ out' = <<>>
    /\ mpc' = "collect"
    /\ UNCHANGED <<Tokens, hits, batchVars, libVars>>

MatchNext ==
    \/ CollectAndSort
    \/ ResolveStep
    \/ ReturnMatches
    \/ MatchAgain

MatchSpec == MatchInit /\ [][MatchNext]_vars

(***************************************************************************)
(* ClassifierBackend: the batch                                            *)
(***************************************************************************)
Files == 1..NumFiles

\* what a file can be: unreadable, or readable with the matches found in it
FileKinds ==
    { [readable |-> FALSE, matches |-> <<>>],
      [readable |-> TRUE,  matches |-> <<>>],
      [readable |-> TRUE,  matches |-> <<"License">>],
      [readable |-> TRUE,  matches |-> <<"Header", "License">>] }

\* fmt.Errorf("unable to read %q: %v", filename, err)
ReadError(f) == [kind |-> "unable to read", file |-> f]
\* ctx.Err() once the deadline has expired
DeadlineExceeded == [kind |-> "deadline exceeded", file |-> 0]

\* the state of the batch before ClassifyLicensesWithContext is called
BatchIdle ==
    /\ results = <<>>
    /\ mu = 0
    /\ task = 0
    /\ taskClosed = FALSE
    /\ errs = <<>>
    /\ errsClosed = FALSE
    /\ wg = 0
    /\ next = 1
    /\ lerrors = <<>>
    /\ lpc = "none"
    /\ kpc = "none"
    /\ wpc = [f \in Files |-> "none"]
    /\ widx = [f \in Files |-> 1]
    /\ ctxDone = FALSE
    /\ errors = <<>>
    /\ cpc = "call"
    /\ returned = <<>>
    /\ got = <<>>
    /\ crashed = FALSE

\* the state of Match before any query
MatchIdle ==
    /\ Tokens = <<>>
    /\ hits = {}
    /\ candidates = <<>>
    /\ retain = <<>>
    /\ i = 0
    /\ out = <<>>
    /\ mpc = "idle"
    /\ again = FALSE
    /\ prevOut = <<>>

BatchInit ==
    /\ numTasks \in 1..MaxTasks
    /\ headers \in BOOLEAN
    /\ content \in [Files -> FileKinds]
    /\ BatchIdle
    /\ MatchIdle
    /\ LibIdle

\* no batch and no query: the rest of the program while a function of the
\* library is called by itself
ProgramIdle ==
    /\ numTasks = 1
    /\ headers = FALSE
    /\ content = [f \in Files |-> [readable |-> TRUE, matches |-> <<>>]]
    /\ BatchIdle
    /\ MatchIdle

\* ---- ClassifyLicensesWithContext and its caller

\* lines 165-169: the channel done is made and the goroutine that runs
\* ClassifyLicenses is started; the caller reaches the select
CallWithContext ==
    /\ ~crashed
    /\ cpc = "call"
    /\ cpc' = "select"
    /\ lpc' = "fill"
    /\ UNCHANGED <<numTasks, headers, content, results, mu, task, taskClosed,
                   errs, errsClosed, wg, next, lerrors, kpc, wpc, widx,
                   ctxDone, errors, returned, got, crashed, matchVars, libVars>>

\* the deadline of ctx expires
DeadlineExpires ==
    /\ ~crashed
    /\ cpc # "call"
    /\ ~ctxDone
    /\ ctxDone' = TRUE
    /\ UNCHANGED <<numTasks, headers, content, results, mu, task, taskClosed,
                   errs, errsClosed, wg, next, lerrors, lpc, kpc, wpc, widx,
                   errors, cpc, returned, got, crashed, matchVars, libVars>>

\* lines 171-174: the select takes <-ctx.Done()
SelectDeadline ==
    /\ ~crashed
    /\ cpc = "select"
    /\ ctxDone
    /\ errors' = Append(errors, DeadlineExceeded)
    /\ returned' = errors'
    /\ cpc' = "timedout"
    /\ UNCHANGED <<numTasks, headers, content, results, mu, task, taskClosed,
                   errs, errsClosed, wg, next, lerrors, lpc, kpc, wpc, widx,
                   ctxDone, got, crashed, matchVars, libVars>>

\* lines 168 and 175-176: the goroutine sends on done, the select takes it
SelectDone ==
    /\ ~crashed
    /\ cpc = "select"
    /\ lpc = "send"
    /\ returned' = errors
    /\ cpc' = "completed"
    /\ lpc' = "exit"
    /\ UNCHANGED <<numTasks, headers, content, results, mu, task, taskClosed,
                   errs, errsClosed, wg, next, lerrors, kpc, wpc, widx,
                   ctxDone, errors, got, crashed, matchVars, libVars>>

\* GetResults, lines 217-219: the caller starts to read b.results
GetResultsBegin ==
    /\ ~crashed
    /\ cpc \in {"timedout", "completed"}
    /\ cpc' = "getresults"
    /\ UNCHANGED <<numTasks, headers, content, results, mu, task, taskClosed,
                   errs, errsClosed, wg, next, lerrors, lpc, kpc, wpc, widx,
                   ctxDone, errors, returned, got, crashed, matchVars, libVars>>

\* GetResults returns the slice
GetResultsEnd ==
    /\ ~crashed
    /\ cpc = "getresults"
    /\ got' = results
    /\ cpc' = "gotresults"
    /\ UNCHANGED <<numTasks, headers, content, results, mu, task, taskClosed,
                   errs, errsClosed, wg, next, lerrors, lpc, kpc, wpc, widx,
                   ctxDone, errors, returned, crashed, matchVars, libVars>>

\* ---- ClassifyLicenses

\* lines 128-133: the channels are made and `task` is filled with tokens
FillTokens ==
    /\ ~crashed
    /\ lpc = "fill"
    /\ task' = numTasks
    /\ lpc' = "add"
    /\ UNCHANGED <<numTasks, headers, content, results, mu, taskClosed, errs,
                   errsClosed, wg, next, lerrors, kpc, wpc, widx, ctxDone,
                   errors, cpc, returned, got, crashed, matchVars, libVars>>

\* line 147: wg.Add(1) for the next file
WgAdd ==
    /\ ~crashed
    /\ lpc = "add"
    /\ next <= NumFiles
    /\ wg' = wg + 1
    /\ lpc' = "take"
    /\ UNCHANGED <<numTasks, headers, content, results, mu, task, taskClosed,
                   errs, errsClosed, next, lerrors, kpc, wpc, widx, ctxDone,
                   errors, cpc, returned, got, crashed, matchVars, libVars>>

\* Admit without the receive from `task`
AdmitWithoutToken ==
    /\ ~crashed
    /\ lpc = "take"
    /\ wpc' = [wpc EXCEPT ![next] = "read"]
    /\ next' = next + 1
    /\ lpc' = "add"
    /\ UNCHANGED <<numTasks, headers, content, results, mu, task, taskClosed,
                   errs, errsClosed, wg, lerrors, kpc, widx, ctxDone, errors,
                   cpc, returned, got, crashed, matchVars, libVars>>

\* lines 148-149: a token is received from `task` and analyze is started
Admit ==
    /\ ~crashed
    /\ lpc = "take"
    /\ task > 0
    /\ task' = task - 1
    /\ wpc' = [wpc EXCEPT ![next] = "read"]
    /\ next' = next + 1
    /\ lpc' = "add"
    /\ UNCHANGED <<numTasks, headers, content, results, mu, taskClosed, errs,
                   errsClosed, wg, lerrors, kpc, widx, ctxDone, errors, cpc,
                   returned, got, crashed, matchVars, libVars>>

\* lines 151-155: after the loop the closing goroutine is started
SpawnCloser ==
    /\ ~crashed
    /\ lpc = "add"
    /\ next > NumFiles
    /\ kpc' = "wait"
    /\ lpc' = "range"
    /\ UNCHANGED <<numTasks, headers, content, results, mu, task, taskClosed,
                   errs, errsClosed, wg, next, lerrors, wpc, widx, ctxDone,
                   errors, cpc, returned, got, crashed, matchVars, libVars>>

\* lines 157-159: an error is received from errs and appended
CollectError ==
    /\ ~crashed
    /\ lpc = "range"
    /\ errs # <<>>
    /\ lerrors' = Append(lerrors, Head(errs))
    /\ errs' = Tail(errs)
    /\ UNCHANGED <<numTasks, headers, content, results, mu, task, taskClosed,
                   errsClosed, wg, next, lpc, kpc, wpc, widx, ctxDone, errors,
                   cpc, returned, got, crashed, matchVars, libVars>>

\* lines 157 and 160, then line 167: errs is closed and drained, ClassifyLicenses
\* returns and its result is assigned to the errors of the enclosing function
ReturnErrors ==
    /\ ~crashed
    /\ lpc = "range"
    /\ errs = <<>>
    /\ errsClosed
    /\ errors' = lerrors
    /\ lpc' = "send"
    /\ UNCHANGED <<numTasks, headers, content, results, mu, task, taskClosed,
                   errs, errsClosed, wg, next, lerrors, kpc, wpc, widx,
                   ctxDone, cpc, returned, got, crashed, matchVars, libVars>>

\* CloserWait without the wait
CloserDoesNotWait ==
    /\ ~crashed
    /\ kpc = "wait"
    /\ kpc' = "closeTask"
    /\ UNCHANGED <<numTasks, headers, content, results, mu, task, taskClosed,
                   errs, errsClosed, wg, next, lerrors, lpc, wpc, widx,
                   ctxDone, errors, cpc, returned, got, crashed, matchVars, libVars>>

\* line 152: wg.Wait() returns
CloserWait ==
    /\ ~crashed
    /\ kpc = "wait"
    /\ wg = 0
    /\ kpc' = "closeTask"
    /\ UNCHANGED <<numTasks, headers, content, results, mu, task, taskClosed,
                   errs, errsClosed, wg, next, lerrors, lpc, wpc, widx,
                   ctxDone, errors, cpc, returned, got, crashed, matchVars, libVars>>

\* line 153: close(task)
CloseTask ==
    /\ ~crashed
    /\ kpc = "closeTask"
    /\ taskClosed' = TRUE
    /\ kpc' = "closeErrs"
    /\ UNCHANGED <<numTasks, headers, content, results, mu, task, errs,
                   errsClosed, wg, next, lerrors, lpc, wpc, widx, ctxDone,
                   errors, cpc, returned, got, crashed, matchVars, libVars>>

\* line 154: close(errs)
CloseErrs ==
    /\ ~crashed
    /\ kpc = "closeErrs"
    /\ errsClosed' = TRUE
    /\ kpc' = "exit"
    /\ UNCHANGED <<numTasks, headers, content, results, mu, task, taskClosed,
                   errs, wg, next, lerrors, lpc, wpc, widx, ctxDone, errors,
                   cpc, returned, got, crashed, matchVars, libVars>>

\* ---- analyze(filename) and classifyLicense

\* lines 183-186: ioutil.ReadFile
ReadFile(w) ==
    /\ ~crashed
    /\ wpc[w] = "read"
    /\ wpc' = [wpc EXCEPT ![w] = IF content[w].readable THEN "match" ELSE "senderr"]
    /\ UNCHANGED <<numTasks, headers, content, results, mu, task, taskClosed,
                   errs, errsClosed, wg, next, lerrors, lpc, kpc, widx,
                   ctxDone, errors, cpc, returned, got, crashed, matchVars, libVars>>

\* lines 141-143: errs <- err; a send on a closed channel panics
SendError(w) ==
    /\ ~crashed
    /\ wpc[w] = "senderr"
    /\ IF errsClosed
       THEN /\ crashed' = TRUE
            /\ wpc' = [wpc EXCEPT ![w] = "panic"]
            /\ errs' = errs
       ELSE /\ errs' = Append(errs, ReadError(w))
            /\ wpc' = [wpc EXCEPT ![w] = "done"]
            /\ crashed' = crashed
    /\ UNCHANGED <<numTasks, headers, content, results, mu, task, taskClosed,
                   errsClosed, wg, next, lerrors, lpc, kpc, widx, ctxDone,
                   errors, cpc, returned, got, matchVars, libVars>>

\* lines 189-193 and 206: the range of matchLoop is exhausted, or the match
\* is a header that is not looked for
MatchLoop(w) ==
    /\ ~crashed
    /\ wpc[w] = "match"
    /\ IF widx[w] > Len(content[w].matches)
       THEN /\ wpc' = [wpc EXCEPT ![w] = "done"]
            /\ widx' = widx
       ELSE /\ ~headers
            /\ content[w].matches[widx[w]] = "Header"
            /\ widx' = [widx EXCEPT ![w] = @ + 1]
            /\ wpc' = wpc
    /\ UNCHANGED <<numTasks, headers, content, results, mu, task, taskClosed,
                   errs, errsClosed, wg, next, lerrors, lpc, kpc, ctxDone,
                   errors, cpc, returned, got, crashed, matchVars, libVars>>

\* line 195: b.mu.Lock()
Lock(w) ==
    /\ ~crashed
    /\ wpc[w] = "match"
    /\ widx[w] <= Len(content[w].matches)
    /\ headers \/ content[w].matches[widx[w]] # "Header"
    /\ mu = 0
    /\ mu' = w
    /\ wpc' = [wpc EXCEPT ![w] = "append"]
    /\ UNCHANGED <<numTasks, headers, content, results, task, taskClosed,
                   errs, errsClosed, wg, next, lerrors, lpc, kpc, widx,
                   ctxDone, errors, cpc, returned, got, crashed, matchVars, libVars>>

\* lines 196-205: the append to b.results and b.mu.Unlock()
AppendResult(w) ==
    /\ ~crashed
    /\ wpc[w] = "append"
    /\ results' = Append(results, [Filename  |-> w,
                                   MatchType |-> content[w].matches[widx[w]]])
    /\ mu' = 0
    /\ widx' = [widx EXCEPT ![w] = @ + 1]
    /\ wpc' = [wpc EXCEPT ![w] = "match"]
    /\ UNCHANGED <<numTasks, headers, content, task, taskClosed, errs,
                   errsClosed, wg, next, lerrors, lpc, kpc, ctxDone, errors,
                   cpc, returned, got, crashed, matchVars, libVars>>

\* line 138: the deferred wg.Done()
DeferDone(w) ==
    /\ ~crashed
    /\ wpc[w] = "done"
    /\ wg' = wg - 1
    /\ wpc' = [wpc EXCEPT ![w] = "release"]
    /\ UNCHANGED <<numTasks, headers, content, results, mu, task, taskClosed,
                   errs, errsClosed, next, lerrors, lpc, kpc, widx, ctxDone,
                   errors, cpc, returned, got, crashed, matchVars, libVars>>

\* line 139: the deferred task <- true; a send on a closed channel panics
DeferRelease(w) ==
    /\ ~crashed
    /\ wpc[w] = "release"
    /\ IF taskClosed
       THEN /\ crashed' = TRUE
            /\ wpc' = [wpc EXCEPT ![w] = "panic"]
            /\ task' = task
       ELSE /\ task' = task + 1
            /\ wpc' = [wpc EXCEPT ![w] = "exit"]
            /\ crashed' = crashed
    /\ UNCHANGED <<numTasks, headers, content, results, mu, taskClosed, errs,
                   errsClosed, wg, next, lerrors, lpc, kpc, widx, ctxDone,
                   errors, cpc, returned, got, matchVars, libVars>>

BatchNext ==
    \/ CallWithContext
    \/ DeadlineExpires
    \/ SelectDeadline
    \/ SelectDone
    \/ GetResultsBegin
    \/ GetResultsEnd
    \/ FillTokens
    \/ WgAdd
    \/ Admit
    \/ SpawnCloser
    \/ CollectError
    \/ ReturnErrors
    \/ CloserWait
    \/ CloseTask
    \/ CloseErrs
    \/ \E w \in Files : ReadFile(w)
    \/ \E w \in Files : SendError(w)
    \/ \E w \in Files : MatchLoop(w)
    \/ \E w \in Files : Lock(w)
    \/ \E w \in Files : AppendResult(w)
    \/ \E w \in Files : DeferDone(w)
    \/ \E w \in Files : DeferRelease(w)

BatchSpec == BatchInit /\ [][BatchNext]_vars

(***************************************************************************)
(* Properties of Corpus.Match                                              *)
(***************************************************************************)
\* b's line range lies within a's
LineRangeWithin(b, a) == a.StartLine <= b.StartLine /\ b.EndLine <= a.EndLine

\* the line ranges of a and b have a line in common
LineRangesMeet(a, b) == a.StartLine <= b.EndLine /\ b.StartLine <= a.EndLine

\* a step of the overlap resolution is about to examine candidates[i + 1]
Examining == mpc = "resolve" /\ i < Len(candidates)

\* no candidate that was examined and is not retained becomes retained, and
\* the returned list holds the retained candidates only
DroppedStaysDropped ==
    /\ Examining => \A j \in 1..i : ~retain[j] => ~retain'[j]
    /\ (mpc = "resolve" /\ i = Len(candidates)) =>
          \A j \in 1..Len(candidates) :
              ~retain[j] => \A n \in 1..Len(out') : out'[n] # candidates[j]

\* C1: when the candidate c under examination lies within the line range of
\* an earlier candidate o that is still retained, and o's token-weighted
\* score is at least c's, the step leaves c not retained; and a candidate
\* that is not retained never becomes retained nor reaches the result.
C1_ContainedNotBetterIsDropped ==
    [][ /\ Examining =>
            LET c == candidates[i + 1]
            IN (\E j \in 1..i :
                    /\ retain[j]
                    /\ LineRangeWithin(c, candidates[j])
                    /\ TokScore(candidates[j]) >= TokScore(c))
               => ~retain'[i + 1]
        /\ DroppedStaysDropped ]_vars

\* a candidate was examined and dropped while a retained earlier candidate
\* with at least its score, starting on an earlier line, contains it
C1_Witness ==
    /\ mpc = "resolve"
    /\ \E k \in 1..i : \E j \in 1..(k - 1) :
          /\ retain[j] /\ ~retain[k]
          /\ LineRangeWithin(candidates[k], candidates[j])
          /\ candidates[j].StartLine < candidates[k].StartLine
          /\ TokScore(candidates[j]) >= TokScore(candidates[k])

\* C2, as claimed: when the candidate c under examination lies within the
\* line range of a retained earlier candidate o and c's token-weighted score
\* is strictly greater than o's, the step removes o and retains c.
C2_ContainedBetterReplaces ==
    [][ Examining =>
            LET c == candidates[i + 1]
            IN \A j \in 1..i :
                  ( /\ retain[j]
                    /\ LineRangeWithin(c, candidates[j])
                    /\ TokScore(c) > TokScore(candidates[j]) )
                  => (retain'[i + 1] /\ ~retain'[j]) ]_vars

\* the retained earlier candidates whose line range meets that of candidate k
Rivals(k) == { j \in 1..(k - 1) : retain[j] /\ LineRangesMeet(candidates[k], candidates[j]) }

\* the rivals of candidate k that lie within k's line range and score less
Beaten(k) ==
    { j \in Rivals(k) :
        /\ LineRangeWithin(candidates[j], candidates[k])
        /\ TokScore(candidates[k]) > TokScore(candidates[j]) }

\* C2, amended: when the line range of the candidate c under examination
\* contains that of a retained earlier candidate o and c's token-weighted
\* score is strictly greater than o's, then o is removed from the retained
\* set if c is kept, and c is kept if every retained earlier candidate whose
\* lines meet c's is such an o; a removed o never returns and is absent
\* from the result.
C2_ContainingBetterReplaces ==
    [][ /\ Examining =>
            /\ retain'[i + 1] => \A j \in Beaten(i + 1) : ~retain'[j]
            /\ Rivals(i + 1) = Beaten(i + 1) => retain'[i + 1]
        /\ DroppedStaysDropped ]_vars

\* a candidate was kept and an earlier candidate within its lines, with a
\* smaller score, retained until then, was removed on its account
C2_Witness ==
    /\ mpc = "resolve"
    /\ i >= 2
    /\ retain[i]
    /\ \E j \in 1..(i - 1) :
          /\ ~retain[j]
          /\ LineRangeWithin(candidates[j], candidates[i])
          /\ TokScore(candidates[i]) > TokScore(candidates[j])
          /\ \A g \in 1..(j - 1) :
                ~(retain[g] /\ LineRangesMeet(candidates[j], candidates[g]))
          /\ \A g \in (j + 1)..(i - 1) :
                ~LineRangesMeet(candidates[j], candidates[g])

\* C3, as claimed: when the candidate c under examination and a retained
\* earlier candidate o have lines in common and neither line range lies
\* within the other, the step leaves c not retained and o retained.
C3_MereOverlapDropsLater ==
    [][ Examining =>
            LET c == candidates[i + 1]
            IN \A j \in 1..i :
                  ( /\ retain[j]
                    /\ LineRangesMeet(c, candidates[j])
                    /\ ~LineRangeWithin(c, candidates[j])
                    /\ ~LineRangeWithin(candidates[j], c) )
                  => (~retain'[i + 1] /\ retain'[j]) ]_vars

\* C4: once sorted, a candidate of higher confidence stands before one of
\* lower confidence; of two with the same confidence the one with the smaller
\* start token index stands first; of two with the same confidence and start
\* the one with the larger end token index stands first.
C4_SortedByConfidenceStartEnd ==
    mpc \in {"resolve", "done"} =>
        \A a, b \in 1..Len(candidates) :
            LET x == candidates[a]
                y == candidates[b]
            IN /\ x.Confidence > y.Confidence => a < b
               /\ (x.Confidence = y.Confidence /\ x.StartTokenIndex < y.StartTokenIndex)
                     => a < b
               /\ ( /\ x.Confidence = y.Confidence
                    /\ x.StartTokenIndex = y.StartTokenIndex
                    /\ x.EndTokenIndex > y.EndTokenIndex )
                     => a < b

\* three sorted candidates: the first two differ in end only, the third has
\* a lower confidence and an earlier start than both
C4_Witness ==
    /\ mpc = "resolve"
    /\ Len(candidates) = 3
    /\ candidates[1].Confidence = candidates[2].Confidence
    /\ candidates[1].StartTokenIndex = candidates[2].StartTokenIndex
    /\ candidates[1].EndTokenIndex > candidates[2].EndTokenIndex
    /\ candidates[3].Confidence < candidates[2].Confidence
    /\ candidates[3].StartTokenIndex < candidates[2].StartTokenIndex

\* C5, as claimed: a second run of Match on the same corpus and query returns
\* the same matches in the same order as the first.
C5_SameResultEveryRun ==
    (mpc = "done" /\ again) => out = prevOut

(***************************************************************************)
(* Properties of the batch                                                 *)
(***************************************************************************)
\* the analyze goroutines that hold a token of `task`
Running ==
    { w \in Files : wpc[w] \in {"read", "senderr", "match", "append", "done",
                                "release", "panic"} }

\* C6: the number of analyze goroutines that have taken a token from the
\* admission semaphore and not yet returned it never exceeds numTasks.
C6_AtMostNumTasksRunning == Cardinality(Running) <= numTasks

\* the limit is reached and the next file waits for a token
C6_Witness ==
    /\ lpc = "take"
    /\ next = 2
    /\ task = 0
    /\ Cardinality(Running) = numTasks

\* C7, as claimed: every append to b.results is made by the holder of b.mu,
\* and no read of b.results by GetResults is under way while a worker is
\* appending.
C7_ResultsAccessExclusive ==
    /\ \A w \in Files : wpc[w] = "append" => mu = w
    /\ cpc = "getresults" => \A w \in Files : wpc[w] # "append"

\* the errors sent so far by the tasks that failed, in the order sent
GatheredErrors == lerrors \o errs

\* the caller was handed the deadline error
TimedOut == returned # <<>> /\ returned[Len(returned)] = DeadlineExceeded

\* C8, as claimed: when the select takes the expired deadline, the list
\* returned ends with the deadline error and holds before it the errors of
\* the tasks that have failed so far; and GetResults hands over the results
\* collected.
C8_TimeoutReturnsGatheredErrors ==
    [][ /\ (cpc = "select" /\ cpc' = "timedout") =>
              /\ returned' # <<>>
              /\ returned'[Len(returned')] = DeadlineExceeded
              /\ \A k \in 1..Len(GatheredErrors) :
                    \E n \in 1..(Len(returned') - 1) : returned'[n] = GatheredErrors[k]
        /\ (cpc = "getresults" /\ cpc' = "gotresults") =>
              \A k \in 1..Len(results) : got'[k] = results[k] ]_vars

\* C9, as claimed (its safety half): once the call has returned on the
\* expired deadline, no analyze goroutine that had not started is started.
C9_NothingStartsAfterDeadline ==
    [][ TimedOut => \A w \in Files : wpc[w] = "none" => wpc'[w] = "none" ]_vars

\* the matches of file f that the batch looks for
Wanted(f) ==
    SelectSeq(content[f].matches, LAMBDA m : headers \/ m # "Header")

RECURSIVE TypesOf(_, _)
\* the match types of the entries of rs that belong to file f, in order
TypesOf(rs, f) ==
    IF rs = <<>> THEN <<>>
    ELSE IF Head(rs).Filename = f
         THEN <<Head(rs).MatchType>> \o TypesOf(Tail(rs), f)
         ELSE TypesOf(Tail(rs), f)

\* C10: when ClassifyLicenses has returned, its error slice holds exactly one
\* error for every file that could not be read and nothing else, and b.results
\* holds the matches looked for of every file that was read.
C10_ErrorsAndResultsComplete ==
    lpc \in {"send", "exit"} =>
        /\ \A f \in Files :
              Cardinality({ k \in 1..Len(lerrors) : lerrors[k] = ReadError(f) })
                 = IF content[f].readable THEN 0 ELSE 1
        /\ \A k \in 1..Len(lerrors) : \E f \in Files : lerrors[k] = ReadError(f)
        /\ \A f \in Files : content[f].readable => TypesOf(results, f) = Wanted(f)

\* a batch has returned with one file unreadable and another with a match
C10_Witness ==
    /\ lpc = "exit"
    /\ cpc = "completed"
    /\ \E f, g \in Files :
          /\ ~content[f].readable
          /\ content[g].readable
          /\ Wanted(g) # <<>>
          /\ returned = <<ReadError(f)>>

(***************************************************************************)
(* contains (src/v2/classifier.go), called by itself as                    *)
(* TestContainsAndOverlaps calls it                                        *)
(***************************************************************************)
\* largest line number of a match
MaxLine == 12

\* the line ranges a Match can carry: it starts at the line of its first
\* token and ends at the line of its last
LineRanges ==
    UNION { { [StartLine |-> s, EndLine |-> e] : e \in s..MaxLine } :
            s \in 1..MaxLine }

ContainsInit ==
    /\ args \in { [a |-> x, b |-> y] : x \in LineRanges, y \in LineRanges }
    /\ calls = {}
    /\ CorpusIdle
    /\ ClassifierIdle
    /\ ChunkIdle
    /\ ProgramIdle

\* contains(x, y) is called on two of the matches and returns
CallContains ==
    \E x \in {args.a, args.b}, y \in {args.a, args.b} :
        /\ \A c \in calls : ~(c.a = x /\ c.b = y)
        /\ calls' = calls \cup { [a |-> x, b |-> y, ret |-> contains(x, y)] }
        /\ UNCHANGED <<args, corpusVars, classifierVars, chunkVars, matchVars,
                   batchVars>>

ContainsNext == CallContains

ContainsSpec == ContainsInit /\ [][ContainsNext]_vars

\* C12: contains is reflexive and antisymmetric on line ranges: contains(a, a)
\* returns true for every match a, and whenever contains(a, b) and
\* contains(b, a) both return true, a and b cover the same line range.
C12_ContainsReflexiveAntisymmetric ==
    /\ \A c \in calls : c.a = c.b => c.ret
    /\ \A c \in calls, d \in calls :
          (d.a = c.b /\ d.b = c.a /\ c.ret /\ d.ret) => c.a = c.b

\* C13: contains(a, b) returns true exactly when the line range of b lies
\* within the line range of a; so it returns false for a on lines 1-10 and b
\* on lines 4-12, and true for a on lines 1-10 and b on lines 4-7.
C13_ContainsIffCompletelyInside ==
    \A c \in calls : c.ret <=> LineRangeWithin(c.b, c.a)

(***************************************************************************)
(* Corpus and dictionary (src/v2/document.go)                              *)
(*                                                                         *)
(* tokenize is not modelled: a document is given as its tokens, records    *)
(* [Text, Index, Line].  The map words is a function from token IDs to     *)
(* words, the map indices a function from words to token IDs.              *)
(***************************************************************************)
\* the words of the texts
Words == {"a", "b"}
\* largest number of tokens of a document
MaxDocLen == 2

unknownWord == "UNKNOWN"
unknownIndex == -1

newDictionary == [words |-> <<>>, indices |-> <<>>]

getIndex(d, word) ==
    IF word \in DOMAIN d.indices THEN d.indices[word] ELSE unknownIndex

getWord(d, ix) ==
    IF ix \in DOMAIN d.words THEN d.words[ix] ELSE unknownWord

\* add that does not look the word up first
addWithoutLookup(d, word) ==
    LET idx == Cardinality(DOMAIN d.words)
    IN [ dict |-> [ words   |-> (idx :> word) @@ d.words,
                    indices |-> (word :> idx) @@ d.indices ],
         idx  |-> idx ]

\* dictionary.add: the dictionary after the call and the token ID returned
add(d, word) ==
    IF getIndex(d, word) # -1
    THEN [ dict |-> d, idx |-> getIndex(d, word) ]
    ELSE LET idx == Cardinality(DOMAIN d.words)
         IN [ dict |-> [ words   |-> (idx :> word) @@ d.words,
                         indices |-> (word :> idx) @@ d.indices ],
              idx  |-> idx ]

RECURSIVE generateIndexedDocument(_, _, _)
\* generateIndexedDocument, lines 84-107: the dictionary after the loop and
\* the Tokens of the indexed document
generateIndexedDocument(d, toks, addWords) ==
    IF toks = <<>> THEN [ dict |-> d, Tokens |-> <<>> ]
    ELSE LET n == Len(toks)
             front == generateIndexedDocument(d, SubSeq(toks, 1, n - 1), addWords)
             t == toks[n]
             r == IF addWords
                  THEN add(front.dict, t.Text)
                  ELSE [ dict |-> front.dict, idx |-> getIndex(front.dict, t.Text) ]
         IN [ dict   |-> r.dict,
              Tokens |-> Append(front.Tokens,
                                [Index |-> t.Index, Line |-> t.Line, ID |-> r.idx]) ]

\* createTargetIndexedDocument that adds the words of the target
createTargetAddsWords(d, toks) == generateIndexedDocument(d, toks, TRUE)

createTargetIndexedDocument(d, toks) == generateIndexedDocument(d, toks, FALSE)

\* the documents tokenize can return: at most MaxDocLen tokens, token k has
\* index k-1, the first token is on line 1 and every other token on the line
\* of its predecessor or on the next
Documents ==
    UNION { { [ k \in 1..n |-> [ Text  |-> txt[k], Index |-> k - 1,
                                 Line  |-> LineOf(steps, k) ] ] :
                txt \in [1..n -> Words], steps \in [1..(n - 1) -> {0, 1}] } :
            n \in 0..MaxDocLen }

\* the thresholds a corpus is made with, in tenths
Thresholds == {0, 8, 10}

\* the token IDs of an indexed document, in order
IDs(toks) == [ k \in 1..Len(toks) |-> toks[k].ID ]

\* the frequency table of an indexed document at one token ID
Freq(toks, id) == Cardinality({ k \in 1..Len(toks) : toks[k].ID = id })

RECURSIVE SumOfMin(_, _, _)
\* the sum over the token IDs of S of the smaller of the two frequencies
SumOfMin(S, target, source) ==
    IF S = {} THEN 0
    ELSE LET id == CHOOSE x \in S : TRUE
             ft == Freq(target, id)
             fs == Freq(source, id)
         IN (IF ft < fs THEN ft ELSE fs) + SumOfMin(S \ {id}, target, source)

\* tokenSimilarity: a fraction, the tokens of the source that the target has
\* over the length of the source
tokenSimilarity(target, source) ==
    [ num |-> SumOfMin({ source[k].ID : k \in 1..Len(source) }, target, source),
      den |-> Len(source) ]

\* the comparison sim >= c.threshold of line 59; the quotient of 0 by 0 is
\* not a number and compares false
SimilarEnough(sim, thr) == sim.den # 0 /\ sim.num * 10 >= thr * sim.den

RECURSIVE levenshtein(_, _)
\* the word-level edit distance of two sequences of token IDs
levenshtein(x, y) ==
    IF x = <<>> THEN Len(y)
    ELSE IF y = <<>> THEN Len(x)
    ELSE LET sub == levenshtein(Tail(x), Tail(y)) + (IF Head(x) = Head(y) THEN 0 ELSE 1)
             del == levenshtein(Tail(x), y) + 1
             ins == levenshtein(x, Tail(y)) + 1
             m   == IF del < ins THEN del ELSE ins
         IN IF sub < m THEN sub ELSE m

\* findPotentialMatches: the spans [TargetStart, TargetEnd) of the target it
\* can return for a source.  The q-gram lookup, detectRuns and fuseRanges
\* are not modelled: every non-empty span of the target is handed to score
findPotentialMatches(source, target) ==
    UNION { { [TargetStart |-> s, TargetEnd |-> e] : e \in (s + 1)..Len(target) } :
            s \in 0..(Len(target) - 1) }

RECURSIVE lcs(_, _)
\* the number of Equal operations of the diff of x and y: the length of a
\* longest common subsequence
lcs(x, y) ==
    IF x = <<>> \/ y = <<>> THEN 0
    ELSE IF Head(x) = Head(y) THEN 1 + lcs(Tail(x), Tail(y))
    ELSE LET l == lcs(Tail(x), y)
             r == lcs(x, Tail(y))
         IN IF l > r THEN l ELSE r

\* the tokens of the slice that the walk from the front discards: those
\* before the first Equal operation, all of them when the diff has none
leadingEdits(slice, source) ==
    CHOOSE k \in 0..Len(slice) :
        /\ lcs(SubSeq(slice, k + 1, Len(slice)), source) = lcs(slice, source)
        /\ \A j \in (k + 1)..Len(slice) :
              lcs(SubSeq(slice, j + 1, Len(slice)), source) < lcs(slice, source)

\* the tokens of the slice that the walk from the end discards: those after
\* the last Equal operation, all of them when the diff has none
trailingEdits(slice, source) ==
    IF lcs(slice, source) = 0 THEN Len(slice)
    ELSE LET rest == SubSeq(slice, leadingEdits(slice, source) + 1, Len(slice))
         IN CHOOSE k \in 0..Len(rest) :
                /\ lcs(SubSeq(rest, 1, Len(rest) - k), source) = lcs(slice, source)
                /\ \A j \in (k + 1)..Len(rest) :
                      lcs(SubSeq(rest, 1, Len(rest) - j), source) < lcs(slice, source)

\* score: the confidence of the span, in tenths rounded down, and the two
\* offsets.  The confidence is
\* 1 - distance / max(length of the span, length of the source).
score(target, source, startIndex, endIndex) ==
    LET slice == SubSeq(IDs(target), startIndex + 1, endIndex)
        L     == Len(source)
        m     == IF Len(slice) > L THEN Len(slice) ELSE L
        dist  == levenshtein(slice, IDs(source))
    IN [ conf        |-> IF m = 0 THEN 10 ELSE (10 * (m - dist)) \div m,
         startOffset |-> leadingEdits(slice, IDs(source)),
         endOffset   |-> trailingEdits(slice, IDs(source)) ]

\* the scored span of lines 80-88: s = startIndex+startOffset and
\* e = endIndex-endOffset-1 are the positions of id.Tokens that are read
Scored(l, target, source, m) ==
    LET sc == score(target, source, m.TargetStart, m.TargetEnd)
    IN [ l    |-> l,
         conf |-> sc.conf,
         s    |-> m.TargetStart + sc.startOffset,
         e    |-> m.TargetEnd - sc.endOffset - 1 ]

\* ScoredSpans with the test of the confidence only
ScoredSpansOfAnyLength(l, target, source, thr) ==
    { Scored(l, target, source, m) :
      m \in { x \in findPotentialMatches(source, target) :
                score(target, source, x.TargetStart, x.TargetEnd).conf >= thr } }

\* lines 73-91 for one entry of firstPass: the scored spans that pass the
\* test of line 79
ScoredSpans(l, target, source, thr) ==
    { Scored(l, target, source, m) :
      m \in { x \in findPotentialMatches(source, target) :
                LET sc == score(target, source, x.TargetStart, x.TargetEnd)
                IN /\ sc.conf >= thr
                   /\ x.TargetEnd - x.TargetStart - sc.startOffset - sc.endOffset > 0 } }

\* NewCorpus
CorpusInit ==
    /\ dict = newDictionary
    /\ docs = <<>>
    /\ threshold \in Thresholds
    /\ args = [fn |-> "NewCorpus"]
    /\ calls = {}
    /\ ClassifierIdle
    /\ ChunkIdle
    /\ ProgramIdle

\* AddContent: every key is loaded once
AddContent(name, doc) ==
    /\ mpc = "idle"
    /\ name \notin DOMAIN docs
    /\ LET id == generateIndexedDocument(dict, doc, TRUE)
       IN /\ dict' = id.dict
          /\ docs' = (name :> id.Tokens) @@ docs
    /\ args' = [fn |-> "AddContent", name |-> name, doc |-> doc]
    /\ UNCHANGED <<calls, threshold, classifierVars, chunkVars, matchVars, batchVars>>

\* Match, lines 54-92: the target is indexed, the first pass selects the
\* entries that are similar enough, and their spans are scored.  A read of
\* id.Tokens at a position it does not have panics
CorpusMatch(doc) ==
    /\ mpc = "idle"
    /\ LET id == createTargetIndexedDocument(dict, doc)
           firstPass == { l \in DOMAIN docs :
                            SimilarEnough(tokenSimilarity(id.Tokens, docs[l]), threshold) }
           spans == UNION { ScoredSpans(l, id.Tokens, docs[l], threshold) : l \in firstPass }
           valid == 0..(Len(id.Tokens) - 1)
       IN /\ dict' = id.dict
          /\ Tokens' = id.Tokens
          /\ IF \A h \in spans : h.s \in valid /\ h.e \in valid
             THEN /\ hits' = spans
                  /\ mpc' = IF firstPass = {} THEN "done" ELSE "collect"
             ELSE /\ hits' = {}
                  /\ mpc' = "panic"
    /\ args' = [fn |-> "Match", doc |-> doc]
    /\ UNCHANGED <<candidates, retain, i, out, again, prevOut, docs, threshold,
                   calls, classifierVars, chunkVars, batchVars>>

CorpusNext ==
    \/ \E name \in Keys, doc \in Documents : AddContent(name, doc)
    \/ \E doc \in Documents : CorpusMatch(doc)
    \/ CollectAndSort
    \/ ResolveStep
    \/ ReturnMatches

CorpusSpec == CorpusInit /\ [][CorpusNext]_vars

\* the maps words and indices are inverses of each other and no word has the
\* ID that stands for an unknown word
DictionaryIsBijection(d) ==
    /\ \A w \in DOMAIN d.indices :
          /\ d.indices[w] \in DOMAIN d.words
          /\ d.words[d.indices[w]] = w
          /\ d.indices[w] # unknownIndex
    /\ \A id \in DOMAIN d.words :
          /\ d.words[id] \in DOMAIN d.indices
          /\ d.indices[d.words[id]] = id
    /\ Cardinality(DOMAIN d.words) = Cardinality(DOMAIN d.indices)

\* C15: after any sequence of adds the dictionary is a bijection between
\* words and IDs that gives no word the ID of the unknown word, and an add of
\* a word that is present returns the ID the word has and changes neither map:
\* every token of a document that is added gets the ID of its word, and no
\* entry that was in a map changes.
C15_DictionaryBijection ==
    [][ /\ DictionaryIsBijection(dict')
        /\ docs' # docs =>
              /\ \A k \in 1..Len(args'.doc) :
                    docs'[args'.name][k].ID = getIndex(dict', args'.doc[k].Text)
              /\ \A w \in DOMAIN dict.indices :
                    getIndex(dict', w) = dict.indices[w]
              /\ \A id \in DOMAIN dict.words :
                    getWord(dict', id) = dict.words[id]
              /\ (\A k \in 1..Len(args'.doc) : args'.doc[k].Text \in DOMAIN dict.indices)
                    => dict' = dict ]_vars

\* two documents were added, the second with a word of the first and a new one
C15_Witness ==
    /\ Cardinality(DOMAIN dict.words) = 2
    /\ \E n \in DOMAIN docs, m \in DOMAIN docs :
          /\ n # m
          /\ args.fn = "AddContent"
          /\ args.name = m
          /\ \E k \in 1..Len(docs[m]), j \in 1..Len(docs[n]) : docs[m][k].ID = docs[n][j].ID
          /\ \E k \in 1..Len(docs[m]) : \A j \in 1..Len(docs[n]) : docs[m][k].ID # docs[n][j].ID

\* C14: a query never changes the corpus: across Match, from the indexing of
\* the target to the return, the maps words and indices of the dictionary and
\* the tokens of every corpus document stay what they were, also when the
\* target has words the dictionary does not have.
C14_MatchLeavesCorpusUnchanged ==
    [][ mpc' # "idle" => (dict' = dict /\ docs' = docs) ]_vars

\* Match has returned for a target with a word the dictionary has and a word
\* it does not have
C14_Witness ==
    /\ mpc = "done"
    /\ args.fn = "Match"
    /\ docs # <<>>
    /\ \E k \in 1..Len(Tokens) : Tokens[k].ID = unknownIndex
    /\ \E k \in 1..Len(Tokens) : Tokens[k].ID # unknownIndex

\* the target of the query is the text of the corpus entry S
SelfMatch(S) == S \in DOMAIN docs /\ Tokens = docs[S]

\* out is one match, of the name of S and of confidence 1.0
SingleMatchOf(S) ==
    /\ Len(out) = 1
    /\ out[1].Name = licName(S)
    /\ out[1].Confidence = 10

\* C11 as stated: for every corpus entry S, Match of the text of S returns
\* exactly one match, with the name of S and confidence 1.0.
C11_SelfMatchIsSingleAndPerfect ==
    mpc = "done" => \A S \in DOMAIN docs : SelfMatch(S) => SingleMatchOf(S)

\* C11 as amended: for every corpus entry S that has a token and whose
\* token sequence no other corpus entry has, Match of the text of S returns
\* exactly one match, with the name of S and confidence 1.0.
C11_SelfMatchOfDistinctEntry ==
    mpc = "done" =>
        \A S \in DOMAIN docs :
            ( /\ SelfMatch(S)
              /\ docs[S] # <<>>
              /\ \A T \in DOMAIN docs \ {S} : IDs(docs[T]) # IDs(docs[S]) )
            => SingleMatchOf(S)

\* Match has returned for the text of an entry S of two lines, and another
\* entry is the text of the second line of S
C11_Witness ==
    /\ mpc = "done"
    /\ \E S \in DOMAIN docs, T \in DOMAIN docs :
          /\ SelfMatch(S)
          /\ Len(docs[S]) = 2
          /\ docs[S][2].Line = 2
          /\ IDs(docs[T]) = <<docs[S][2].ID>>
          /\ docs[S][1].ID # docs[S][2].ID
          /\ Cardinality(hits) = 2
          /\ SingleMatchOf(S)

(***************************************************************************)
(* confidencePercentage (src/unnamed/part_004, package stringclassifier)   *)
(*                                                                         *)
(* A float64 result is modelled by the fraction num/den it is computed     *)
(* from, den > 0; fractions are compared by cross multiplication.          *)
(***************************************************************************)
\* largest length of the unknown and of the known text
MaxTextLen == 4

max(a, b) == IF a > b THEN a ELSE b

min(a, b) == IF a < b THEN a ELSE b

\* confidencePercentage without the test of distance against the lengths
confidenceUnclamped(ulen, klen, distance) ==
    IF ulen = 0 /\ klen = 0 THEN [num |-> 1, den |-> 1]
    ELSE IF ulen = 0 \/ klen = 0 THEN [num |-> 0, den |-> 1]
    ELSE [num |-> max(ulen, klen) - distance, den |-> max(ulen, klen)]

confidencePercentage(ulen, klen, distance) ==
    IF ulen = 0 /\ klen = 0 THEN [num |-> 1, den |-> 1]
    ELSE IF ulen = 0 \/ klen = 0 \/ (distance > ulen /\ distance > klen)
         THEN [num |-> 0, den |-> 1]
    ELSE [num |-> max(ulen, klen) - distance, den |-> max(ulen, klen)]

\* the lengths of two texts and a distance DiffLevenshtein can return for a
\* diff of them: at most the deletions plus the insertions
ConfidenceInit ==
    /\ args \in UNION { { [ulen |-> u, klen |-> k, distance |-> d] : d \in 0..(u + k) } :
                        u \in 0..MaxTextLen, k \in 0..MaxTextLen }
    /\ calls = {}
    /\ CorpusIdle
    /\ ClassifierIdle
    /\ ChunkIdle
    /\ ProgramIdle

CallConfidencePercentage ==
    /\ calls = {}
    /\ calls' = { [ ulen |-> args.ulen, klen |-> args.klen, distance |-> args.distance,
                    ret  |-> confidencePercentage(args.ulen, args.klen, args.distance) ] }
    /\ UNCHANGED <<args, corpusVars, classifierVars, chunkVars, matchVars,
                   batchVars>>

ConfidenceNext == CallConfidencePercentage

ConfidenceSpec == ConfidenceInit /\ [][ConfidenceNext]_vars

\* two fractions are the same number
SameNumber(f, g) == f.num * g.den = g.num * f.den

\* the fraction is a number of [0, 1]
InUnitInterval(f) == 0 <= f.num /\ f.num <= f.den

\* C20 as stated: the confidence is 1 - distance / max(ulen, klen), it is 1.0
\* when both lengths are zero and 0.0 when exactly one is, and it lies in
\* [0, 1] for all lengths and distances.
C20_ConfidenceIsOneMinusRatio ==
    \A c \in calls :
        /\ SameNumber(c.ret,
              IF c.ulen = 0 /\ c.klen = 0 THEN [num |-> 1, den |-> 1]
              ELSE IF c.ulen = 0 \/ c.klen = 0 THEN [num |-> 0, den |-> 1]
              ELSE [num |-> max(c.ulen, c.klen) - c.distance, den |-> max(c.ulen, c.klen)])
        /\ InUnitInterval(c.ret)

\* C20 as amended: the confidence is 1.0 when both lengths are zero, 0.0 when
\* exactly one is zero or when the distance exceeds both lengths, and
\* 1 - distance / max(ulen, klen) otherwise; it lies in [0, 1] for all lengths
\* and distances.
C20_ConfidenceClampedAtZero ==
    \A c \in calls :
        /\ SameNumber(c.ret,
              IF c.ulen = 0 /\ c.klen = 0 THEN [num |-> 1, den |-> 1]
              ELSE IF c.ulen = 0 \/ c.klen = 0 THEN [num |-> 0, den |-> 1]
              ELSE IF c.distance > max(c.ulen, c.klen) THEN [num |-> 0, den |-> 1]
              ELSE [num |-> max(c.ulen, c.klen) - c.distance, den |-> max(c.ulen, c.klen)])
        /\ InUnitInterval(c.ret)

\* confidencePercentage has returned for a distance larger than both lengths,
\* neither of them zero
C20_Witness ==
    \E c \in calls :
        /\ c.ulen > 0
        /\ c.klen > c.ulen
        /\ c.distance > c.klen
        /\ c.ret.num = 0

(***************************************************************************)
(* computeQ (package classifier, v2)                                       *)
(*                                                                         *)
(* A threshold is modelled in hundredths: 90 is the float64 0.9.           *)
(***************************************************************************)
Hundredths == 0..100

\* the thresholds t where the float64 difference 1.0 - t is above the exact
\* one, so that a float64 quotient by it falls just below the exact integer
\* quotient
RoundsBelow == {95, 96, 98, 99}

\* floor of the float64 quotient (n / 100) / (1.0 - t / 100), for n = t and
\* n = 100
Float64FloorDiv(n, t) == (n \div (100 - t)) - (IF t \in RoundsBelow THEN 1 ELSE 0)

computeQ(t) ==
    IF t = 100 THEN 10
    ELSE max(1, Float64FloorDiv(t, t))

\* the table with the row for 0.8 expecting 5
TestComputeQInverse ==
    { [threshold |-> 90,  expected |-> 9],
      [threshold |-> 80,  expected |-> 5],
      [threshold |-> 67,  expected |-> 2],
      [threshold |-> 50,  expected |-> 1],
      [threshold |-> 0,   expected |-> 1],
      [threshold |-> 100, expected |-> 10] }

TestComputeQ ==
    { [threshold |-> 90,  expected |-> 9],
      [threshold |-> 80,  expected |-> 4],
      [threshold |-> 67,  expected |-> 2],
      [threshold |-> 50,  expected |-> 1],
      [threshold |-> 0,   expected |-> 1],
      [threshold |-> 100, expected |-> 10] }

ComputeQInit ==
    /\ args \in { [threshold |-> t] : t \in Hundredths }
    /\ calls = {}
    /\ CorpusIdle
    /\ ClassifierIdle
    /\ ChunkIdle
    /\ ProgramIdle

CallComputeQ ==
    /\ calls = {}
    /\ calls' = { [threshold |-> args.threshold, ret |-> computeQ(args.threshold)] }
    /\ UNCHANGED <<args, corpusVars, classifierVars, chunkVars, matchVars,
                   batchVars>>

ComputeQNext == CallComputeQ

ComputeQSpec == ComputeQInit /\ [][ComputeQNext]_vars

MaxToks == 6

\* the token lists of the texts of at most MaxToks tokens
TokenLists == UNION { [1..n -> Words] : n \in 0..MaxToks }

\* h[checksum] holds the ranges with that checksum, in the order they were added
hash_add(h, checksum, start, end) ==
    LET ntr == [Start |-> start, End |-> end]
    IN  IF checksum \in DOMAIN h /\ \E n \in 1..Len(h[checksum]) : h[checksum][n] = ntr
        THEN h
        ELSE IF checksum \in DOMAIN h
             THEN [h EXCEPT ![checksum] = Append(@, ntr)]
             ELSE (checksum :> <<ntr>>) @@ h

\* the checksum of the tokens t[offset], ..., t[offset + size - 1], 0-based
stringifyTokens(t, offset, size) == SubSeq(t, offset + 1, offset + size)

\* the post statement of the loop, with every offset visited
nextOffsetByOne(offset, size) == offset + 1

\* the post statement of the loop
nextOffset(offset, size) == offset + size \div 2

RECURSIVE generateHashesLoop(_, _, _, _)
generateHashesLoop(t, size, offset, acc) ==
    IF offset + size <= Len(t)
    THEN LET cs   == stringifyTokens(t, offset, size)
             done == [ h   |-> hash_add(acc.h, cs, offset, offset + size),
                       css |-> Append(acc.css, cs),
                       tr  |-> Append(acc.tr, [Start |-> offset, End |-> offset + size]) ]
         IN  IF size <= 1 THEN done
             ELSE generateHashesLoop(t, size, nextOffset(offset, size), done)
    ELSE acc

generateHashes(t, h, size) ==
    generateHashesLoop(t, size, 0, [h |-> h, css |-> <<>>, tr |-> <<>>])

\* a text and a window size from 1 to its length, as New passes them, or the
\* empty text and the size 0 of TestSearchSet_GenerateHashes
HashesInit ==
    /\ args \in UNION { { [toks |-> t, size |-> q] : q \in (IF t = <<>> THEN 0 ELSE 1)..Len(t) } :
                        t \in TokenLists }
    /\ calls = {}
    /\ CorpusIdle
    /\ ClassifierIdle
    /\ ChunkIdle
    /\ ProgramIdle

CallGenerateHashes ==
    /\ calls = {}
    /\ calls' = { [ toks |-> args.toks, size |-> args.size,
                    ret  |-> generateHashes(args.toks, <<>>, args.size) ] }
    /\ UNCHANGED <<args, corpusVars, classifierVars, chunkVars, matchVars,
                   batchVars>>

HashesNext == CallGenerateHashes

HashesSpec == HashesInit /\ [][HashesNext]_vars

RECURSIVE SumOfLengths(_, _)
SumOfLengths(h, keys) ==
    IF keys = {} THEN 0
    ELSE LET k == CHOOSE x \in keys : TRUE
         IN  Len(h[k]) + SumOfLengths(h, keys \ {k})

\* the number of ranges registered in the hash
Registered(h) == SumOfLengths(h, DOMAIN h)

MaxRanges == 3

\* largest token position in the target
MaxPos == 4

\* largest start of a source range
MaxSrcPos == 2

\* the lists of n target ranges that sort.Sort(tarRanges) can leave: in the
\* order of Start, ranges of the same Start in any order
SortedRanges(n) ==
    { tr \in [1..n -> { [Start |-> a, End |-> b] : a \in 0..MaxPos, b \in 1..MaxPos }] :
        /\ \A k \in 1..n : tr[k].Start < tr[k].End
        /\ \A k \in 1..(n - 1) : tr[k].Start <= tr[k + 1].Start }

\* the sets of starts of the source ranges of a target range: none, as in the
\* tests without source ranges, one or two
SrcStarts == { ss \in SUBSET (0..MaxSrcPos) : Cardinality(ss) <= 2 }

\* what matchNodes hands over: the source ranges of a target range have its
\* checksum, so they have its number of tokens
WithSources(tr, ss) ==
    [ k \in DOMAIN tr |->
        [ Start |-> tr[k].Start,
          End   |-> tr[k].End,
          src   |-> { [Start |-> s, End |-> s + tr[k].End - tr[k].Start] : s \in ss[k] } ] ]

\* lines 316-325: some range of pranges ends where some range of cranges starts
consecutive(pranges, cranges) ==
    \E pr \in pranges, cr \in cranges : pr.End = cr.Start

\* the loop of coalesceTokenRanges from ranges[k] on, 1-based; prev is
\* ranges[k - 1], as the post statement of line 297 leaves it
RECURSIVE coalesceLoop(_, _, _)
coalesceLoop(ranges, k, res) ==
    IF k > Len(ranges) THEN res
    ELSE LET last     == Len(res)
             cur      == ranges[k]
             prev     == ranges[k - 1]
             extended == [res EXCEPT ![last].End = cur.End]
             appended == Append(res, [Start |-> cur.Start, End |-> cur.End])
             after    ==
                 IF res[last].End <= cur.Start
                 THEN IF res[last].End = cur.Start
                      THEN IF consecutive(prev.src, cur.src) THEN extended ELSE appended
                      ELSE appended
                 ELSE IF res[last].Start < cur.Start
                 THEN IF res[last].End > cur.Start /\ res[last].End < cur.End
                      THEN extended ELSE res
                 ELSE IF res[last].Start = cur.Start
                 THEN IF res[last].End < cur.End THEN extended ELSE res
                 ELSE res
         IN  coalesceLoop(ranges, k + 1, after)

coalesceTokenRanges(ranges) ==
    coalesceLoop(ranges, 2, << [Start |-> ranges[1].Start, End |-> ranges[1].End] >>)

CoalesceInit ==
    /\ \E n \in 1..MaxRanges : \E tr \in SortedRanges(n) : \E ss \in [1..n -> SrcStarts] :
          args = [ranges |-> WithSources(tr, ss)]
    /\ calls = {}
    /\ CorpusIdle
    /\ ClassifierIdle
    /\ ChunkIdle
    /\ ProgramIdle

CallCoalesceTokenRanges ==
    /\ calls = {}
    /\ calls' = { [ranges |-> args.ranges, ret |-> coalesceTokenRanges(args.ranges)] }
    /\ UNCHANGED <<args, corpusVars, classifierVars, chunkVars, matchVars,
                   batchVars>>

CoalesceNext == CallCoalesceTokenRanges

CoalesceSpec == CoalesceInit /\ [][CoalesceNext]_vars

\* a position inside a range of the result where two ranges were joined end
\* to start: no range of the list reaches across it
JoinedAt(c, b) ==
    /\ \E n \in 1..Len(c.ret) : c.ret[n].Start < b /\ b < c.ret[n].End
    /\ \A n \in 1..Len(c.ranges) : ~(c.ranges[n].Start < b /\ b < c.ranges[n].End)

\* C16: two target ranges of which the first ends where the second starts are
\* joined into one range of the result only if some source range of the first
\* ends where some source range of the second starts.
C16_AdjacentJoinedOnlyIfSourceConsecutive ==
    \A c \in calls : \A b \in 1..MaxPos :
        JoinedAt(c, b) =>
            \E m, n \in 1..Len(c.ranges) :
                /\ c.ranges[m].End = b
                /\ c.ranges[n].Start = b
                /\ consecutive(c.ranges[m].src, c.ranges[n].src)

(***************************************************************************)
(* fuseRanges (package classifier, v2)                                     *)
(*                                                                         *)
(* A match range is a record with SrcStart, SrcEnd, TargetStart, TargetEnd *)
(* and TokensClaimed.  The confidence is in tenths, as the threshold is.   *)
(***************************************************************************)
\* largest number of match ranges of a candidate list
MaxFuse == 3

\* largest start of a match range, in the source and in the target
MaxStart == 2

\* largest number of tokens of a match range
MaxRun == 2

\* number of tokens of the source
SourceSize == 5

\* a run of len tokens at ss in the source and at ts in the target
matchRange(ss, ts, len) ==
    [ SrcStart |-> ss, SrcEnd |-> ss + len,
      TargetStart |-> ts, TargetEnd |-> ts + len, TokensClaimed |-> len ]

MatchRanges ==
    { matchRange(ss, ts, len) : ss \in 0..MaxStart, ts \in 0..MaxStart, len \in 1..MaxRun }

\* the candidate lists: the ranges of a list differ in where they start
CandidateLists ==
    UNION { { l \in [1..n -> MatchRanges] :
                \A j, k \in 1..n :
                    j # k => <<l[j].TargetStart, l[j].SrcStart>> # <<l[k].TargetStart, l[k].SrcStart>> } :
            n \in 1..MaxFuse }

\* the order of the sort: by target start, then by source start
rangeLess(a, b) ==
    \/ a.TargetStart < b.TargetStart
    \/ a.TargetStart = b.TargetStart /\ a.SrcStart < b.SrcStart

RECURSIVE insertSorted(_, _)
insertSorted(l, m) ==
    IF l = <<>> THEN <<m>>
    ELSE IF rangeLess(m, Head(l)) THEN <<m>> \o l
    ELSE <<Head(l)>> \o insertSorted(Tail(l), m)

RECURSIVE sortRanges(_)
sortRanges(l) ==
    IF l = <<>> THEN <<>>
    ELSE insertSorted(sortRanges(SubSeq(l, 1, Len(l) - 1)), l[Len(l)])

abs(x) == IF x < 0 THEN -x ELSE x

\* floor(L * (1 - threshold))
errorMargin(size, conf) == (size * (10 - conf)) \div 10

\* the gap between the span c and the range m does not exceed the error
\* budget, in the target and in the source
withinError(c, m, budget) ==
    /\ abs(m.TargetStart - c.TargetEnd) <= budget
    /\ abs(m.SrcStart - c.SrcEnd) <= budget

\* the range m merged into the first span that is near enough, or a span of
\* its own
claim(spans, m, budget) ==
    IF \E k \in 1..Len(spans) : withinError(spans[k], m, budget)
    THEN LET k == CHOOSE k \in 1..Len(spans) :
                      /\ withinError(spans[k], m, budget)
                      /\ \A j \in 1..(k - 1) : ~withinError(spans[j], m, budget)
         IN  [spans EXCEPT ![k] = [ SrcStart      |-> @.SrcStart,
                                    SrcEnd        |-> m.SrcEnd,
                                    TargetStart   |-> @.TargetStart,
                                    TargetEnd     |-> m.TargetEnd,
                                    TokensClaimed |-> @.TokensClaimed + m.TokensClaimed ]]
    ELSE Append(spans, m)

RECURSIVE fuseLoop(_, _, _)
fuseLoop(l, spans, budget) ==
    IF l = <<>> THEN spans
    ELSE fuseLoop(Tail(l), claim(spans, Head(l), budget), budget)

\* fuseRanges on the list as it came
fuseUnsorted(matched, conf, size) ==
    LET spans == fuseLoop(matched, <<>>, errorMargin(size, conf))
    IN  SelectSeq(spans, LAMBDA c : c.TokensClaimed * 10 >= conf * size)

fuseRanges(matched, conf, size) ==
    LET spans == fuseLoop(sortRanges(matched), <<>>, errorMargin(size, conf))
    IN  SelectSeq(spans, LAMBDA c : c.TokensClaimed * 10 >= conf * size)

\* the orders a list can come in
Orders(n) == { p \in [1..n -> 1..n] : \A j, k \in 1..n : j # k => p[j] # p[k] }

InOrder(l, p) == [k \in DOMAIN l |-> l[p[k]]]

\* the input of the row "in target order" of TestFuseRanges
TestFuseRangesIn ==
    << [SrcStart |-> 50, SrcEnd |-> 93, TargetStart |-> 0,  TargetEnd |-> 43, TokensClaimed |-> 43],
       [SrcStart |-> 0,  SrcEnd |-> 43, TargetStart |-> 0,  TargetEnd |-> 43, TokensClaimed |-> 43],
       [SrcStart |-> 10, SrcEnd |-> 47, TargetStart |-> 60, TargetEnd |-> 97, TokensClaimed |-> 37],
       [SrcStart |-> 60, SrcEnd |-> 97, TargetStart |-> 60, TargetEnd |-> 97, TokensClaimed |-> 37] >>

\* the input of the row "not in-target order": the same ranges, each pair
\* exchanged
TestFuseRangesInExchanged == InOrder(TestFuseRangesIn, <<2, 1, 4, 3>>)

\* the output both rows expect
TestFuseRangesOut ==
    << [SrcStart |-> 0, SrcEnd |-> 97, TargetStart |-> 0, TargetEnd |-> 97, TokensClaimed |-> 80] >>

FuseInit ==
    /\ \E l \in CandidateLists : \E conf \in Thresholds :
          args = [matched |-> l, conf |-> conf, size |-> SourceSize]
    /\ calls = {}
    /\ CorpusIdle
    /\ ClassifierIdle
    /\ ChunkIdle
    /\ ProgramIdle

\* fuseRanges is called on the list in one more order
CallFuseRanges ==
    /\ Cardinality(calls) < 2
    /\ \E p \in Orders(Len(args.matched)) :
          LET matched == InOrder(args.matched, p)
          IN  /\ \A c \in calls : c.matched # matched
              /\ calls' = calls \cup
                    { [ matched |-> matched, conf |-> args.conf, size |-> args.size,
                        ret |-> fuseRanges(matched, args.conf, args.size) ] }
    /\ UNCHANGED <<args, corpusVars, classifierVars, chunkVars, matchVars,
                   batchVars>>

FuseNext == CallFuseRanges

FuseSpec == FuseInit /\ [][FuseNext]_vars

FairBatchSpec == BatchSpec /\ WF_vars(BatchNext)

\* C24: no analyze goroutine sends on a closed channel: neither the deferred
\* task <- true nor errs <- err finds its channel closed.
C24_NoSendOnClosedChannel ==
    /\ ~crashed
    /\ \A w \in Files : wpc[w] # "panic"
    /\ \A w \in Files : (wpc[w] = "release" => ~taskClosed) /\ (wpc[w] = "senderr" => ~errsClosed)

\* C25: ClassifyLicenses terminates: every file is admitted and its analyze
\* goroutine runs to its end, errs is closed and the call returns.
C25_ClassifyLicensesTerminates ==
    <>( /\ lpc \in {"send", "exit"}
        /\ errsClosed
        /\ \A w \in Files : wpc[w] = "exit" )

\* C27: once ClassifyLicensesWithContext has returned, the goroutine that
\* runs ClassifyLicenses terminates, unless the process has died of a panic.
C27_RunnerTerminatesAfterReturn ==
    (cpc \in {"timedout", "completed", "getresults", "gotresults"}) ~> (lpc = "exit" \/ crashed)

(***************************************************************************)
(* The list Match returns                                                  *)
(***************************************************************************)
\* C26: no two matches of the list Match returns have a line in common: of
\* two distinct returned matches one ends before the other starts.  The
\* candidates retained so far have the same property.
C26_ReturnedMatchesDisjoint ==
    /\ mpc = "done" =>
          \A a, b \in 1..Len(out) :
              a # b => (out[a].EndLine < out[b].StartLine \/ out[b].EndLine < out[a].StartLine)
    /\ mpc = "resolve" =>
          \A a, b \in 1..i :
              (a # b /\ retain[a] /\ retain[b]) =>
                  ~LineRangesMeet(candidates[a], candidates[b])

\* Match has returned two matches after it dropped one candidate whose lines
\* meet those of a returned match and removed another in favour of a later one
C26_Witness ==
    /\ mpc = "done"
    /\ Len(out) >= 2
    /\ \E j, k \in 1..Len(candidates) :
          /\ j < k
          /\ ~retain[j]
          /\ retain[k]
          /\ LineRangesMeet(candidates[j], candidates[k])
          /\ TokScore(candidates[k]) > TokScore(candidates[j])

\* ---------------------------------------------------------------------
\* Match: the positions of id.Tokens that are read (CorpusSpec)
\* ---------------------------------------------------------------------

\* the spans of entry l that reach the threshold and that the walks from
\* both ends discard entirely
DiscardedSpans(l) ==
    { x \in findPotentialMatches(docs[l], Tokens) :
        LET sc == score(Tokens, docs[l], x.TargetStart, x.TargetEnd)
        IN /\ sc.conf >= threshold
           /\ x.TargetEnd - x.TargetStart - sc.startOffset - sc.endOffset <= 0 }

\* C21: Match never panics: for every input and every corpus, the empty
\* corpus and the threshold 0 included, every position of id.Tokens that is
\* read, startIndex+startOffset and endIndex-endOffset-1, is a position
\* the document has, and an empty input or an empty corpus gives an empty
\* result
C21_MatchReadsValidPositions ==
    /\ mpc # "panic"
    /\ \A h \in hits : /\ h.s \in 0..(Len(Tokens) - 1)
                        /\ h.e \in 0..(Len(Tokens) - 1)
                        /\ h.s <= h.e
    /\ (args.fn = "Match" /\ mpc = "done" /\ (args.doc = <<>> \/ docs = <<>>))
          => out = <<>>

\* a Match at threshold 0 where a span reaches the threshold although
\* none of its tokens is Equal to one of the entry, and is not read
C21_Witness ==
    /\ args.fn = "Match"
    /\ mpc = "done"
    /\ threshold = 0
    /\ \E l \in DOMAIN docs : DiscardedSpans(l) # {}

\* a Match of the empty document on a corpus with entries, at threshold 0
C21_WitnessEmptyInput ==
    /\ args.fn = "Match"
    /\ mpc = "done"
    /\ threshold = 0
    /\ args.doc = <<>>
    /\ docs # <<>>
    /\ out = <<>>

\* ---------------------------------------------------------------------
\* identify_license: main and its exit code (MainSpec)
\* ---------------------------------------------------------------------

\* the process has ended: log.Fatal calls os.Exit(1), the return of main
\* exits with 0
Exited == cpc \in {"exit0", "exit1"}

\* lines 176-182: ClassifyLicensesWithContext returned errors; they are
\* logged and log.Fatal ends the process
MainFatal ==
    /\ ~crashed
    /\ cpc \in {"timedout", "completed"}
    /\ returned # <<>>
    /\ cpc' = "exit1"
    /\ UNCHANGED <<numTasks, headers, content, results, mu, task, taskClosed,
                   errs, errsClosed, wg, next, lerrors, lpc, kpc, wpc, widx,
                   ctxDone, errors, returned, got, crashed, matchVars, libVars>>

\* line 184: without errors main goes on to GetResults
MainGetResults ==
    /\ returned = <<>>
    /\ GetResultsBegin

\* lines 185-204: no result is fatal; otherwise the results are sorted and
\* printed and, when -json is given, written to the file, which can fail
MainOutput ==
    /\ ~crashed
    /\ cpc = "gotresults"
    /\ \E json \in {"none", "written", "failed"} :
          cpc' = IF Len(got) = 0 \/ json = "failed" THEN "exit1" ELSE "exit0"
    /\ UNCHANGED <<numTasks, headers, content, results, mu, task, taskClosed,
                   errs, errsClosed, wg, next, lerrors, lpc, kpc, wpc, widx,
                   ctxDone, errors, returned, got, crashed, matchVars, libVars>>

\* the goroutines of the backend run until the process has ended
MainNext ==
    \/ MainFatal
    \/ MainGetResults
    \/ MainOutput
    \/ ~Exited /\ CallWithContext
    \/ ~Exited /\ DeadlineExpires
    \/ ~Exited /\ SelectDeadline
    \/ ~Exited /\ SelectDone
    \/ ~Exited /\ GetResultsEnd
    \/ ~Exited /\ FillTokens
    \/ ~Exited /\ WgAdd
    \/ ~Exited /\ Admit
    \/ ~Exited /\ SpawnCloser
    \/ ~Exited /\ CollectError
    \/ ~Exited /\ ReturnErrors
    \/ ~Exited /\ CloserWait
    \/ ~Exited /\ CloseTask
    \/ ~Exited /\ CloseErrs
    \/ \E w \in Files : ~Exited /\ ReadFile(w)
    \/ \E w \in Files : ~Exited /\ SendError(w)
    \/ \E w \in Files : ~Exited /\ MatchLoop(w)
    \/ \E w \in Files : ~Exited /\ Lock(w)
    \/ \E w \in Files : ~Exited /\ AppendResult(w)
    \/ \E w \in Files : ~Exited /\ DeferDone(w)
    \/ \E w \in Files : ~Exited /\ DeferRelease(w)

MainSpec == BatchInit /\ [][MainNext]_vars

\* C22: identify_license exits with code 0 whenever at least one match was
\* found in the given paths, and with a non-zero code when no match was
\* found
C22_ExitCodeTellsWhetherMatched ==
    /\ (Exited /\ results # <<>>) => cpc = "exit0"
    /\ (Exited /\ results = <<>>) => cpc = "exit1"

\* the half of C22 that the code keeps: no match, no exit code 0
C22_NoMatchExitsNonZero == (Exited /\ results = <<>>) => cpc = "exit1"

\* ---------------------------------------------------------------------
\* identify_license: the JSON output (ResultsSpec)
\* ---------------------------------------------------------------------

\* most results of a run
MaxLicenses == 3
\* file paths, each named by its rank in the order of strings
MaxPaths == 2
\* last line of a file
MaxResultLine == 2

\* LicenseType, with the fields that NewJSONResult and Less read
LicenseType ==
    [ Filename : 1..MaxPaths, Name : {"MIT"}, Confidence : ConfLevels,
      StartLine : 1..MaxResultLine, EndLine : 1..MaxResultLine ]

\* LicenseTypes.Less, on two elements
licenseTypesLess(a, b) ==
    IF a.Confidence > b.Confidence THEN TRUE
    ELSE IF a.Confidence < b.Confidence THEN FALSE
    ELSE IF a.Filename < b.Filename THEN TRUE
    ELSE IF a.Filename > b.Filename THEN FALSE
    ELSE a.EndLine < b.EndLine

\* sort.Sort(results): some arrangement of the elements in which no
\* element is Less than one before it; the sort is not stable
sortedLicenseTypes(lt) ==
    { [ k \in 1..Len(lt) |-> lt[p[k]] ] :
        p \in { q \in [1..Len(lt) -> 1..Len(lt)] :
                  /\ \A a, b \in 1..Len(lt) : a # b => q[a] # q[b]
                  /\ \A a, b \in 1..Len(lt) :
                        a < b => ~licenseTypesLess(lt[q[b]], lt[q[a]]) } }

\* lines 120-125: the Classification made of a LicenseType
classification(l) ==
    [ Name |-> l.Name, Confidence |-> l.Confidence,
      StartLine |-> l.StartLine, EndLine |-> l.EndLine ]

RECURSIVE classificationsOf(_, _)
\* lines 114-134 for one file: its classifications are appended in the order
\* of the list
classificationsOf(licenses, f) ==
    IF licenses = <<>> THEN <<>>
    ELSE IF Head(licenses).Filename = f
         THEN <<classification(Head(licenses))>> \o classificationsOf(Tail(licenses), f)
         ELSE classificationsOf(Tail(licenses), f)

\* JSONResult.Less
jsonResultLess(a, b) == a.Filepath < b.Filepath

\* NewJSONResult: one record for every file of the list, then sort.Sort(jr)
NewJSONResult(licenses) ==
    LET fMap == { [ Filepath |-> f, Classifications |-> classificationsOf(licenses, f) ] :
                  f \in { licenses[k].Filename : k \in 1..Len(licenses) } }
    IN CHOOSE jr \in [1..Cardinality(fMap) -> fMap] :
          \A a, b \in 1..Cardinality(fMap) : a < b => jsonResultLess(jr[a], jr[b])

\* the results of the backend, in the order in which they were stored
ResultsInit ==
    /\ \E n \in 0..MaxLicenses : \E lt \in [1..n -> LicenseType] :
          args = [fn |-> "GetResults", licenses |-> lt]
    /\ calls = {}
    /\ CorpusIdle
    /\ ClassifierIdle
    /\ ChunkIdle
    /\ ProgramIdle

\* main, line 189: sort.Sort(results)
SortResults ==
    /\ calls = {}
    /\ \E sorted \in sortedLicenseTypes(args.licenses) :
          calls' = { [fn |-> "Sort", arg |-> args.licenses, ret |-> sorted] }
    /\ UNCHANGED <<args, corpusVars, classifierVars, chunkVars, matchVars,
                   batchVars>>

\* main, lines 198-203, and outputJSON: NewJSONResult of the sorted results
OutputJSON ==
    /\ \E c \in calls : c.fn = "Sort"
    /\ \A c \in calls : c.fn # "NewJSONResult"
    /\ calls' = calls \cup { [fn |-> "NewJSONResult", arg |-> c.ret,
                              ret |-> NewJSONResult(c.ret)] : c \in calls }
    /\ UNCHANGED <<args, corpusVars, classifierVars, chunkVars, matchVars,
                   batchVars>>

ResultsNext == SortResults \/ OutputJSON

ResultsSpec == ResultsInit /\ [][ResultsNext]_vars

\* the records of a JSON result are in the order of their Filepath
ByFilepath(jr) == \A a, b \in 1..Len(jr) : a < b => jr[a].Filepath < jr[b].Filepath

\* the classifications of a record are in the order of their StartLine
ByStartLine(cs) == \A a, b \in 1..Len(cs) : a < b => cs[a].StartLine <= cs[b].StartLine

\* C23: the JSON output is a list of records, one for a file, sorted by
\* filepath, and within every record the classifications are sorted by
\* start_line, whatever the order in which the results were accumulated
C23_SortedByFilepathThenStartLine ==
    \A c \in calls : c.fn = "NewJSONResult" =>
        /\ ByFilepath(c.ret)
        /\ \A k \in 1..Len(c.ret) : ByStartLine(c.ret[k].Classifications)

\* the part of C23 that the code keeps: the records are sorted by filepath
C23_RecordsSortedByFilepath ==
    \A c \in calls : c.fn = "NewJSONResult" => ByFilepath(c.ret)

\* ---------------------------------------------------------------------
\* stringclassifier: MultipleMatch and uniquify (UniquifySpec)
\* ---------------------------------------------------------------------

\* most matches in the queue of multipleMatch
MaxMatches == 3
\* known values, each named by the rank of its key in the order of strings
MaxNames == 2
\* largest Offset and largest Extent of a match
MaxOffset == 2
MaxExtent == 2

\* Match: a known value found at Offset with length Extent; the confidence
\* is in tenths
Match ==
    [ Name : 1..MaxNames, Confidence : ConfLevels,
      Offset : 0..MaxOffset, Extent : 1..MaxExtent ]

\* Matches.Less, on two elements
matchesLess(a, b) ==
    IF a.Confidence = b.Confidence
    THEN IF a.Name = b.Name
         THEN IF a.Offset > b.Offset THEN FALSE
              ELSE IF a.Offset = b.Offset THEN a.Extent > b.Extent
              ELSE TRUE
         ELSE a.Name < b.Name
    ELSE a.Confidence > b.Confidence

\* lines 232-243: the queue is emptied into a list without duplicates,
\* which sort.Sort puts in the order of Less
sortMatches(queue) ==
    CHOOSE m \in [1..Cardinality(queue) -> queue] :
        \A a, b \in 1..Cardinality(queue) : a < b => matchesLess(m[a], m[b])

RECURSIVE uniquifyLoop(_, _, _, _)
\* the loop of lines 195-203 from element k on
uniquifyLoop(m, k, matched, matches) ==
    IF k > Len(m) THEN matches
    ELSE IF \E n \in 1..Len(matched) :
                /\ m[k].Offset >= matched[n].offset
                /\ m[k].Offset <= matched[n].offset + matched[n].extent
         THEN uniquifyLoop(m, k + 1, matched, matches)
         ELSE uniquifyLoop(m, k + 1,
                  Append(matched, [offset |-> m[k].Offset, extent |-> m[k].Extent]),
                  Append(matches, m[k]))

\* uniquify
uniquify(m) == uniquifyLoop(m, 1, <<>>, <<>>)

\* the queue that multipleMatch returns
UniquifyInit ==
    /\ \E n \in 0..MaxMatches : \E pushed \in [1..n -> Match] :
          args = [fn |-> "MultipleMatch", queue |-> { pushed[k] : k \in 1..n }]
    /\ calls = {}
    /\ CorpusIdle
    /\ ClassifierIdle
    /\ ChunkIdle
    /\ ProgramIdle

\* MultipleMatch, lines 229-244
CallMultipleMatch ==
    /\ calls = {}
    /\ LET sorted == sortMatches(args.queue)
       IN calls' = { [fn |-> "MultipleMatch", sorted |-> sorted, ret |-> uniquify(sorted)] }
    /\ UNCHANGED <<args, corpusVars, classifierVars, chunkVars, matchVars,
                   batchVars>>

UniquifyNext == CallMultipleMatch

UniquifySpec == UniquifyInit /\ [][UniquifyNext]_vars

\* a lies within the range [Offset, Offset+Extent] of b
LiesWithin(a, b) ==
    /\ b.Offset <= a.Offset
    /\ a.Offset + a.Extent <= b.Offset + b.Extent

\* the elements of a list
Elements(m) == { m[k] : k \in 1..Len(m) }

\* ret is sorted with some elements left out
KeptInOrder(sorted, ret) ==
    /\ Elements(ret) \subseteq Elements(sorted)
    /\ \A a, b \in 1..Len(ret) : a < b => matchesLess(ret[a], ret[b])

\* C28: uniquify, applied to the matches sorted by rank, removes exactly the
\* matches that lie within an earlier retained match (which has a confidence
\* at least as high) and keeps every other match in order, so that no
\* returned match lies within the range [Offset, Offset+Extent] of a
\* returned match that ranks before it
C28_RemovesExactlyContainedMatches ==
    \A c \in calls :
        /\ KeptInOrder(c.sorted, c.ret)
        /\ \A k \in 1..Len(c.sorted) :
              c.sorted[k] \notin Elements(c.ret)
                <=> \E j \in 1..(k - 1) : /\ c.sorted[j] \in Elements(c.ret)
                                           /\ LiesWithin(c.sorted[k], c.sorted[j])
        /\ \A a, b \in 1..Len(c.ret) : a < b => ~LiesWithin(c.ret[b], c.ret[a])

\* the part of C28 that the code keeps: the result is in order and no
\* returned match lies within a returned match that ranks before it
C28_NoReturnedMatchWithinEarlier ==
    \A c \in calls :
        /\ KeptInOrder(c.sorted, c.ret)
        /\ \A a, b \in 1..Len(c.ret) : a < b => ~LiesWithin(c.ret[b], c.ret[a])

\* ---------------------------------------------------------------------
\* stringclassifier: concurrent calls of MultipleMatch (ClassifierSpec)
\* ---------------------------------------------------------------------

\* the known values were added with AddValue (set is nil) or with
\* AddPrecomputedValue (set is built); every call has reached line 369
ClassifierInit ==
    /\ values \in [Values -> {"nil", "built"}]
    /\ muValues = [readers |-> {}, writer |-> <<>>]
    /\ qpc = [c \in Callers |-> "rlock"]
    /\ kvals = [c \in Callers |-> {}]
    /\ known = [c \in Callers |-> [v \in Values |-> "nil"]]
    /\ gpc = [c \in Callers |-> [v \in Values |-> "none"]]
    /\ args = <<>>
    /\ calls = {}
    /\ CorpusIdle
    /\ ChunkIdle
    /\ ProgramIdle

\* line 369: c.muValues.RLock()
ValuesRLock(c) ==
    /\ qpc[c] = "rlock"
    /\ muValues.writer = <<>>
    /\ muValues' = [muValues EXCEPT !.readers = @ \cup {c}]
    /\ qpc' = [qpc EXCEPT ![c] = "copy"]
    /\ UNCHANGED <<values, kvals, known, gpc, callVars, corpusVars,
                   chunkVars, matchVars, batchVars>>

\* lines 370-373: the pointers to the known values are copied to kvals
CopyValues(c) ==
    /\ qpc[c] = "copy"
    /\ kvals' = [kvals EXCEPT ![c] = Values]
    /\ qpc' = [qpc EXCEPT ![c] = "runlock"]
    /\ UNCHANGED <<values, muValues, known, gpc, callVars, corpusVars,
                   chunkVars, matchVars, batchVars>>

\* lines 374-376: c.muValues.RUnlock() and wg.Add
ValuesRUnlock(c) ==
    /\ qpc[c] = "runlock"
    /\ muValues' = [muValues EXCEPT !.readers = @ \ {c}]
    /\ qpc' = [qpc EXCEPT ![c] = "loop"]
    /\ UNCHANGED <<values, kvals, known, gpc, callVars, corpusVars,
                   chunkVars, matchVars, batchVars>>

\* lines 377-379: known.set is read and classifyString is started with it
GoClassifyString(c, v) ==
    /\ qpc[c] = "loop"
    /\ v \in kvals[c]
    /\ known' = [known EXCEPT ![c][v] = values[v]]
    /\ gpc' = [gpc EXCEPT ![c][v] = "start"]
    /\ kvals' = [kvals EXCEPT ![c] = @ \ {v}]
    /\ UNCHANGED <<values, muValues, qpc, callVars, corpusVars,
                   chunkVars, matchVars, batchVars>>

\* line 380: wg.Wait(), after the last goroutine was started
WgWait(c) ==
    /\ qpc[c] = "loop"
    /\ kvals[c] = {}
    /\ \A v \in Values : gpc[c][v] = "done"
    /\ qpc' = [qpc EXCEPT ![c] = "done"]
    /\ UNCHANGED <<values, muValues, kvals, known, gpc, callVars, corpusVars,
                   chunkVars, matchVars, batchVars>>

\* lines 343-344: a nil set is built by searchset.New
ClassifyStringStart(c, v) ==
    /\ gpc[c][v] = "start"
    /\ gpc' = [gpc EXCEPT ![c][v] = IF known[c][v] = "nil" THEN "lock" ELSE "find"]
    /\ UNCHANGED <<values, muValues, qpc, kvals, known, callVars, corpusVars,
                   chunkVars, matchVars, batchVars>>

\* line 345: c.muValues.Lock()
ValuesLock(c, v) ==
    /\ gpc[c][v] = "lock"
    /\ muValues = [readers |-> {}, writer |-> <<>>]
    /\ muValues' = [muValues EXCEPT !.writer = <<c, v>>]
    /\ gpc' = [gpc EXCEPT ![c][v] = "write"]
    /\ UNCHANGED <<values, qpc, kvals, known, callVars, corpusVars,
                   chunkVars, matchVars, batchVars>>

\* line 346: c.values[name].set = known
WriteKnownSet(c, v) ==
    /\ gpc[c][v] = "write"
    /\ values' = [values EXCEPT ![v] = "built"]
    /\ gpc' = [gpc EXCEPT ![c][v] = "unlock"]
    /\ UNCHANGED <<muValues, qpc, kvals, known, callVars, corpusVars,
                   chunkVars, matchVars, batchVars>>

\* line 347: c.muValues.Unlock()
ValuesUnlock(c, v) ==
    /\ gpc[c][v] = "unlock"
    /\ muValues' = [muValues EXCEPT !.writer = <<>>]
    /\ gpc' = [gpc EXCEPT ![c][v] = "find"]
    /\ UNCHANGED <<values, qpc, kvals, known, callVars, corpusVars,
                   chunkVars, matchVars, batchVars>>

\* lines 350-366 and the deferred wg.Done()
FindMatches(c, v) ==
    /\ gpc[c][v] = "find"
    /\ gpc' = [gpc EXCEPT ![c][v] = "done"]
    /\ UNCHANGED <<values, muValues, qpc, kvals, known, callVars, corpusVars,
                   chunkVars, matchVars, batchVars>>

ClassifierNext ==
    \/ \E c \in Callers : ValuesRLock(c)
    \/ \E c \in Callers : CopyValues(c)
    \/ \E c \in Callers : ValuesRUnlock(c)
    \/ \E c \in Callers, v \in Values : GoClassifyString(c, v)
    \/ \E c \in Callers : WgWait(c)
    \/ \E c \in Callers, v \in Values : ClassifyStringStart(c, v)
    \/ \E c \in Callers, v \in Values : ValuesLock(c, v)
    \/ \E c \in Callers, v \in Values : WriteKnownSet(c, v)
    \/ \E c \in Callers, v \in Values : ValuesUnlock(c, v)
    \/ \E c \in Callers, v \in Values : FindMatches(c, v)

ClassifierSpec == ClassifierInit /\ [][ClassifierNext]_vars

\* call c is about to read the set field of v: line 378
ReadsSet(c, v) == qpc[c] = "loop" /\ v \in kvals[c]

\* goroutine v of call c is about to write the set field of v: line 346
WritesSet(c, v) == gpc[c][v] = "write"

\* C29: concurrent calls of MultipleMatch never race on the set field of a
\* knownValue: every read and every write of it is made while muValues is
\* held, so no read or write meets a write of another goroutine
C29_SetAccessedUnderMuValues ==
    /\ \A c \in Callers, v \in Values : ReadsSet(c, v) => c \in muValues.readers
    /\ \A c \in Callers, v \in Values : WritesSet(c, v) => muValues.writer = <<c, v>>
    /\ \A c, d \in Callers, v \in Values :
          WritesSet(d, v) => /\ ~ReadsSet(c, v)
                             /\ \A u \in Callers : (u # d) => ~WritesSet(u, v)

\* the part of C29 that the code keeps: the writes are made under the write
\* lock, one at a time
C29_WritesUnderLock ==
    /\ \A c \in Callers, v \in Values : WritesSet(c, v) => muValues.writer = <<c, v>>
    /\ \A c, d \in Callers, v \in Values :
          (c # d /\ WritesSet(c, v)) => ~WritesSet(d, v)

\* a write of the set field and a read of it by another call, both about to
\* happen
C29_ReadMeetsWrite ==
    \E c, d \in Callers, v \in Values : c # d /\ ReadsSet(c, v) /\ WritesSet(d, v)

\* ---------------------------------------------------------------------
\* commentparser: Comments.ChunkIterator (ChunkSpec)
\* ---------------------------------------------------------------------

\* most comments of a file
MaxComments == 3
\* last line of a file with comments
MaxCommentLine == 4

\* Comment: a single line comment has StartLine equal to EndLine
Comment ==
    { cm \in [StartLine : 1..MaxCommentLine, EndLine : 1..MaxCommentLine] :
        cm.StartLine <= cm.EndLine }

\* the comments that Parse returns: in the order of the file
ParsedComments(n) ==
    { cs \in [1..n -> Comment] :
        \A k \in 1..(n - 1) : cs[k].EndLine <= cs[k + 1].StartLine }

\* classifyLicense, lines 151-152: the comments are parsed, ChunkIterator
\* makes ch and starts its goroutine, and the loop begins to range over ch
ChunkInit ==
    /\ \E n \in 0..MaxComments : comments \in ParsedComments(n)
    /\ index = 0
    /\ prevChunk = <<>>
    /\ chunk = <<>>
    /\ chClosed = FALSE
    /\ ppc = "start"
    /\ rpc = "range"
    /\ received = <<>>
    /\ args = <<>>
    /\ calls = {}
    /\ CorpusIdle
    /\ ClassifierIdle
    /\ ProgramIdle

\* lines 75-80: nothing to send, or prevChunk := c[0] and index := 0
IteratorStart ==
    /\ ppc = "start"
    /\ IF Len(comments) = 0
       THEN /\ ppc' = "close"
            /\ UNCHANGED <<prevChunk, index>>
       ELSE /\ prevChunk' = comments[1]
            /\ index' = 0
            /\ ppc' = "outer"
    /\ UNCHANGED <<comments, chunk, chClosed, rpc, received, callVars, corpusVars,
                   classifierVars, matchVars, batchVars>>

\* lines 80-81: the test of the outer loop and the empty chunk
OuterLoop ==
    /\ ppc = "outer"
    /\ IF index < Len(comments)
       THEN /\ chunk' = <<>>
            /\ ppc' = "inner"
       ELSE /\ ppc' = "close"
            /\ UNCHANGED chunk
    /\ UNCHANGED <<comments, index, prevChunk, chClosed, rpc, received, callVars,
                   corpusVars, classifierVars, matchVars, batchVars>>

\* lines 83-90: the inner loop stops at comment cm
breaks(cm, prev) ==
    \/ cm.StartLine > prev.StartLine + 1
    \/ /\ cm.StartLine = prev.StartLine + 2
       /\ (cm.StartLine # cm.EndLine \/ prev.StartLine # prev.EndLine)

\* lines 82-93: one turn of the inner loop
InnerLoop ==
    /\ ppc = "inner"
    /\ IF index < Len(comments) /\ ~breaks(comments[index + 1], prevChunk)
       THEN /\ chunk' = Append(chunk, comments[index + 1])
            /\ prevChunk' = comments[index + 1]
            /\ index' = index + 1
            /\ UNCHANGED ppc
       ELSE /\ ppc' = IF Len(chunk) = 0 THEN "close" ELSE "send"
            /\ UNCHANGED <<chunk, prevChunk, index>>
    /\ UNCHANGED <<comments, chClosed, rpc, received, callVars, corpusVars,
                   classifierVars, matchVars, batchVars>>

\* line 98 and the receive of the range loop: ch has no buffer, the send and
\* the receive happen together
SendChunk ==
    /\ ppc = "send"
    /\ rpc = "range"
    /\ received' = Append(received, chunk)
    /\ ppc' = "sent"
    /\ rpc' = "body"
    /\ UNCHANGED <<comments, index, prevChunk, chunk, chClosed, callVars, corpusVars,
                   classifierVars, matchVars, batchVars>>

\* AfterSend without the step back of line 104
AfterSendNoStepBack ==
    /\ ppc = "sent"
    /\ IF index >= Len(comments)
       THEN /\ ppc' = "close"
            /\ UNCHANGED <<prevChunk, index>>
       ELSE /\ prevChunk' = comments[index + 1]
            /\ index' = index + 1
            /\ ppc' = "outer"
    /\ UNCHANGED <<comments, chunk, chClosed, rpc, received, callVars, corpusVars,
                   classifierVars, matchVars, batchVars>>

\* lines 99-105 and the index++ of line 80: the loop ends after the last
\* comment; otherwise prevChunk := c[index] and index stays where it is
AfterSend ==
    /\ ppc = "sent"
    /\ IF index >= Len(comments)
       THEN /\ ppc' = "close"
            /\ UNCHANGED <<prevChunk, index>>
       ELSE /\ prevChunk' = comments[index + 1]
            /\ index' = (index - 1) + 1
            /\ ppc' = "outer"
    /\ UNCHANGED <<comments, chunk, chClosed, rpc, received, callVars, corpusVars,
                   classifierVars, matchVars, batchVars>>

\* line 73: the deferred close(ch)
CloseChannel ==
    /\ ppc = "close"
    /\ chClosed' = TRUE
    /\ ppc' = "exit"
    /\ UNCHANGED <<comments, index, prevChunk, chunk, rpc, received, callVars,
                   corpusVars, classifierVars, matchVars, batchVars>>

\* backend.go, lines 153-154: the body of the range loop
LoopBody ==
    /\ rpc = "body"
    /\ rpc' = "range"
    /\ UNCHANGED <<comments, index, prevChunk, chunk, chClosed, ppc, received,
                   callVars, corpusVars, classifierVars, matchVars, batchVars>>

\* the range loop ends when ch is closed
LoopEnd ==
    /\ rpc = "range"
    /\ chClosed
    /\ rpc' = "done"
    /\ UNCHANGED <<comments, index, prevChunk, chunk, chClosed, ppc, received,
                   callVars, corpusVars, classifierVars, matchVars, batchVars>>

ChunkNext ==
    \/ IteratorStart
    \/ OuterLoop
    \/ InnerLoop
    \/ SendChunk
    \/ AfterSend
    \/ CloseChannel
    \/ LoopBody
    \/ LoopEnd

ChunkSpec == ChunkInit /\ [][ChunkNext]_vars

\* the goroutine of ChunkIterator and the loop that reads ch are both run
\* by the scheduler whenever they can take a step
FairChunkSpec == ChunkSpec /\ WF_vars(ChunkNext)

RECURSIVE Concatenation(_)
\* the chunks put one after the other
Concatenation(chunks) ==
    IF chunks = <<>> THEN <<>> ELSE Head(chunks) \o Concatenation(Tail(chunks))

\* what was received so far: chunks that are not empty and that make up the
\* first comments of the list, all of them once ch is closed
ReceivedInOrder ==
    /\ \A k \in 1..Len(received) : received[k] # <<>>
    /\ Len(Concatenation(received)) <= Len(comments)
    /\ Concatenation(received) = SubSeq(comments, 1, Len(Concatenation(received)))
    /\ (chClosed \/ rpc = "done") => Concatenation(received) = comments

\* C30: ChunkIterator delivers chunks that are not empty and whose
\* concatenation is the list of comments in its order, every comment in one
\* chunk, and then closes the channel, so the loop that ranges over the
\* channel ends after it has received all comments
C30_AllCommentsDeliveredThenClosed ==
    /\ []ReceivedInOrder
    /\ <>(rpc = "done" /\ chClosed /\ Concatenation(received) = comments)

\* the loop has ended after two chunks, one of them with two comments
C30_Witness ==
    /\ rpc = "done"
    /\ Len(comments) = 3
    /\ Len(received) = 2
    /\ \E k \in 1..2 : Len(received[k]) = 2

====
